---- MODULE Spec2Model ----
(***************************************************************************)
(* A model of the ageflow image pipeline: candidate acquisition            *)
(* (src/images/collector.py), the date verifiers (collector.py, exif.py,   *)
(* wikimedia.py) and anchor selection (src/images/anchor_selector.py).     *)
(*                                                                         *)
(* Conventions.  A Python Optional value is a sequence of length 0 (None)  *)
(* or 1 (the value).  A Python str that the code takes apart (a date, an   *)
(* EXIF or extmetadata value) is a sequence of one-character strings; a    *)
(* URL or title, only ever compared, is a pair <<text, n>>; a source name  *)
(* is a TLA+ string.  A float confidence c is the integer 100*c.  A call   *)
(* that may raise yields a record [ok |-> BOOLEAN, ...].                   *)
(***************************************************************************)
EXTENDS Integers, Sequences, FiniteSets, TLC

None == <<>>
Some(x) == <<x>>
IsNone(o) == o = <<>>
Val(o) == o[1]

Max2(a, b) == IF a >= b THEN a ELSE b
Min2(a, b) == IF a <= b THEN a ELSE b

\* sorted(set): the ascending list of a finite set of integers
RECURSIVE Sorted(_)
Sorted(S) ==
    IF S = {} THEN <<>>
    ELSE LET m == CHOOSE x \in S : \A y \in S : x <= y
         IN  <<m>> \o Sorted(S \ {m})

(***************************************************************************)
(* Strings as character sequences                                          *)
(***************************************************************************)
Digits == {"0", "1", "2", "3", "4", "5", "6", "7", "8", "9"}

DigitVal(c) ==
    CASE c = "0" -> 0 [] c = "1" -> 1 [] c = "2" -> 2 [] c = "3" -> 3
      [] c = "4" -> 4 [] c = "5" -> 5 [] c = "6" -> 6 [] c = "7" -> 7
      [] c = "8" -> 8 [] c = "9" -> 9

DigitChar(n) ==
    CASE n = 0 -> "0" [] n = 1 -> "1" [] n = 2 -> "2" [] n = 3 -> "3"
      [] n = 4 -> "4" [] n = 5 -> "5" [] n = 6 -> "6" [] n = 7 -> "7"
      [] n = 8 -> "8" [] n = 9 -> "9"

\* s[:n]
Prefix(s, n) == SubSeq(s, 1, Min2(n, Len(s)))

\* ch in s
Contains(s, ch) == \E i \in 1..Len(s) : s[i] = ch

\* s.split(ch)[0]
SplitHead(s, ch) ==
    IF Contains(s, ch)
        THEN SubSeq(s, 1, (CHOOSE i \in 1..Len(s) :
                              s[i] = ch /\ \A j \in 1..(i - 1) : s[j] # ch) - 1)
        ELSE s

RECURSIVE LStrip(_)
LStrip(s) == IF s # <<>> /\ Head(s) = " " THEN LStrip(Tail(s)) ELSE s

RECURSIVE RStrip(_)
RStrip(s) ==
    IF s # <<>> /\ s[Len(s)] = " " THEN RStrip(SubSeq(s, 1, Len(s) - 1)) ELSE s

\* s.strip()
Strip(s) == RStrip(LStrip(s))

\* s.replace(a, b) for single characters
Replace(s, a, b) == [i \in 1..Len(s) |-> IF s[i] = a THEN b ELSE s[i]]

AllDigits(s) == \A i \in 1..Len(s) : s[i] \in Digits

RECURSIVE DecimalValue(_)
DecimalValue(s) ==
    IF s = <<>> THEN 0
    ELSE 10 * DecimalValue(SubSeq(s, 1, Len(s) - 1)) + DigitVal(s[Len(s)])

\* int(s): over the characters the model's strings are made of (digits,
\* letters, "-", ":", "?", " ") int() succeeds exactly on a non-empty run of
\* digits, possibly surrounded by blanks.
IntParse(s) ==
    LET t == Strip(s)
    IN  IF t # <<>> /\ AllDigits(t)
            THEN [ok |-> TRUE, val |-> DecimalValue(t)]
            ELSE [ok |-> FALSE, val |-> 0]

\* collector._year_from_date: int(date_str[:4]); raises ValueError otherwise
_year_from_date(date_str) == IntParse(Prefix(date_str, 4))

(***************************************************************************)
(* Date extraction: wikimedia._extract_extmeta_date, exif.py               *)
(***************************************************************************)
ExtmetaKeys == <<"DateTimeOriginal", "DateTimeDigitized", "DateTime", "Date">>

\* "if sep in v: v = v.split(sep)[0].strip()"
CutAt(v, sep) == IF Contains(v, sep) THEN Strip(SplitHead(v, sep)) ELSE v

\* "if v[4] == ':' and v[7] == ':': v = v[:10].replace(':', '-')"
ColonsToDashes(v) ==
    IF Len(v) >= 10 /\ v[5] = ":" /\ v[8] = ":"
        THEN Replace(Prefix(v, 10), ":", "-")
        ELSE v

\* "if v[4] == '-' and v[7] == '-': return v[:10], ..." under len(v) >= 10
DashedPrefix(v) ==
    IF Len(v) >= 10 /\ v[5] = "-" /\ v[8] = "-" THEN Some(Prefix(v, 10)) ELSE None

\* the body of the key loop of _extract_extmeta_date for one value string:
\* Some(the 10-character prefix) or None
ExtmetaValueDate(val) ==
    DashedPrefix(ColonsToDashes(CutAt(CutAt(Strip(val), "T"), " ")))

\* "if not node: continue ... if not val: continue", then the value's date
DateOfNode(node) ==
    IF IsNone(node) \/ Val(node) = <<>> THEN None ELSE ExtmetaValueDate(Val(node))

ExtmetaHit(d, rest, key) ==
    IF IsNone(d) THEN rest
    ELSE [date |-> d, method |-> Some(<<"commons", key>>)]

\* the key loop of _extract_extmeta_date over the keys still to check
RECURSIVE ExtmetaScan(_, _)
ExtmetaScan(extmeta, keys) ==
    IF keys = <<>> THEN [date |-> None, method |-> None]
    ELSE ExtmetaHit(DateOfNode(extmeta[Head(keys)]),
                    ExtmetaScan(extmeta, Tail(keys)), Head(keys))

\* wikimedia._extract_extmeta_date / extract_verified_date_from_commons:
\* extmeta maps each key to None (no usable value node) or Some(value)
_extract_extmeta_date(extmeta) == ExtmetaScan(extmeta, ExtmetaKeys)

IsLeap(y) == (y % 4 = 0 /\ y % 100 # 0) \/ y % 400 = 0

DaysInMonth(y, m) ==
    IF m = 2 THEN (IF IsLeap(y) THEN 29 ELSE 28)
    ELSE IF m \in {4, 6, 9, 11} THEN 30 ELSE 31

\* y, m, d name a day of the calendar (datetime accepts years 1..9999)
DayOk(y, m, d) == y >= 1 /\ m \in 1..12 /\ d \in 1..DaysInMonth(y, m)

\* the date part YYYY<sep>MM<sep>DD of a fixed-width timestamp is a real day
DatePartOk(v, sep) ==
    /\ Len(v) >= 10
    /\ AllDigits(SubSeq(v, 1, 4)) /\ v[5] = sep
    /\ AllDigits(SubSeq(v, 6, 7)) /\ v[8] = sep
    /\ AllDigits(SubSeq(v, 9, 10))
    /\ DayOk(DecimalValue(SubSeq(v, 1, 4)), DecimalValue(SubSeq(v, 6, 7)),
             DecimalValue(SubSeq(v, 9, 10)))

TwoDigitsIn(s, lo, hi) == AllDigits(s) /\ DecimalValue(s) \in lo..hi

\* the time part " HH:MM:SS" at positions 11..19
TimePartOk(v) ==
    /\ Len(v) = 19 /\ v[11] = " " /\ v[14] = ":" /\ v[17] = ":"
    /\ TwoDigitsIn(SubSeq(v, 12, 13), 0, 23)
    /\ TwoDigitsIn(SubSeq(v, 15, 16), 0, 59)
    /\ TwoDigitsIn(SubSeq(v, 18, 19), 0, 61)

\* dt.strftime("%Y-%m-%d") of the parsed fixed-width date
IsoDate(v) == Replace(Prefix(v, 10), ":", "-")

\* the three strptime formats of _normalize_exif_datetime, in its order, on
\* the stripped value: "%Y:%m:%d %H:%M:%S", "%Y-%m-%d %H:%M:%S", "%Y-%m-%d"
MatchesExifFormat(v) ==
    \/ DatePartOk(v, ":") /\ TimePartOk(v)
    \/ DatePartOk(v, "-") /\ (Len(v) = 10 \/ TimePartOk(v))

\* exif._normalize_exif_datetime over fixed-width (zero-padded) timestamps
NormalizeStripped(v) == IF MatchesExifFormat(v) THEN Some(IsoDate(v)) ELSE None

_normalize_exif_datetime(value) ==
    IF value = <<>> THEN None ELSE NormalizeStripped(Strip(value))

ExifTagNames == <<"DateTimeOriginal", "DateTimeDigitized", "DateTime">>

\* "norm = _normalize_exif_datetime(raw) if raw else None"
NormOfRaw(raw) ==
    IF IsNone(raw) THEN None ELSE _normalize_exif_datetime(Val(raw))

ExifHit(norm, rest, name) ==
    IF IsNone(norm) THEN rest ELSE [date |-> norm, tag |-> Some(name)]

\* the tag loop of extract_exif_date over the raw values still to check
RECURSIVE ExifScan(_, _)
ExifScan(exif, names) ==
    IF names = <<>> THEN [date |-> None, tag |-> None]
    ELSE ExifHit(NormOfRaw(exif[Head(names)]), ExifScan(exif, Tail(names)),
                 Head(names))

extract_exif_date_FirstPresentOnly(file) ==
    IF IsNone(file) THEN [date |-> None, tag |-> None]
    ELSE LET present == {k \in 1..Len(ExifTagNames) :
                            ~IsNone(Val(file)[ExifTagNames[k]])}
         IN  IF present = {} THEN [date |-> None, tag |-> None]
             ELSE LET k == CHOOSE i \in present : \A j \in present : i <= j
                  IN  ExifHit(NormOfRaw(Val(file)[ExifTagNames[k]]),
                              [date |-> None, tag |-> None], ExifTagNames[k])

\* exif.extract_exif_date: file is None when the image cannot be opened or
\* carries no EXIF block, else Some(record of the three raw tag values)
extract_exif_date(file) ==
    IF IsNone(file) THEN [date |-> None, tag |-> None]
    ELSE ExifScan(Val(file), ExifTagNames)

(***************************************************************************)
(* Candidate model (images/models.py) and the verifiers (collector.py)     *)
(***************************************************************************)
EmptyMeta ==
    [commons_date |-> None, commons_date_method |-> None,
     query_year |-> None, download_error |-> None]

\* ImageCandidate(source=..., title=..., image_url=..., meta=...): the other
\* fields take the defaults of models.ImageCandidate (page_url, which no
\* step reads, is left out of the model)
ImageCandidate(source, title, image_url, meta) ==
    [source |-> source, title |-> title, image_url |-> image_url,
     local_path |-> None, verified |-> FALSE, verified_date |-> None,
     meta |-> meta]

VerifiedDate(date, year, method, confidence) ==
    [date |-> date, year |-> year, method |-> method, confidence |-> confidence]

\* collector._verify_with_commons.  verified is assigned before
\* VerifiedDate(...) is built, so when _year_from_date raises the candidate
\* object is left with verified = True and verified_date = None.
_verify_with_commons(candidate) ==
    LET date_str == candidate.meta.commons_date
        method == candidate.meta.commons_date_method
    IN  IF candidate.source # "wikimedia" THEN [ok |-> TRUE, cand |-> candidate]
        ELSE IF ~IsNone(date_str) /\ Val(date_str) # <<>> /\ ~IsNone(method)
            THEN LET y == _year_from_date(Val(date_str))
                     marked == [candidate EXCEPT !.verified = TRUE]
                 IN  IF y.ok
                         THEN [ok |-> TRUE,
                               cand |-> [marked EXCEPT !.verified_date =
                                   Some(VerifiedDate(Val(date_str), y.val,
                                                     Val(method), 95))]]
                         ELSE [ok |-> FALSE, cand |-> marked]
            ELSE [ok |-> TRUE, cand |-> candidate]

\* collector._verify_with_exif; file is what Image.open finds at local_path
_verify_with_exif(candidate, file) ==
    IF IsNone(candidate.local_path) THEN [ok |-> TRUE, cand |-> candidate]
    ELSE LET r == extract_exif_date(file)
         IN  IF IsNone(r.date) THEN [ok |-> TRUE, cand |-> candidate]
             ELSE LET y == _year_from_date(Val(r.date))
                      marked == [candidate EXCEPT !.verified = TRUE]
                  IN  IF y.ok
                          THEN [ok |-> TRUE,
                                cand |-> [marked EXCEPT !.verified_date =
                                    Some(VerifiedDate(Val(r.date), y.val,
                                        <<"exif", Val(r.tag)>>,
                                        IF Val(r.tag) = "DateTimeOriginal"
                                            THEN 98 ELSE 93))]]
                          ELSE [ok |-> FALSE, cand |-> marked]

_download_candidate_PathOnFailure(candidate, idx, fetched) ==
    IF fetched
        THEN [candidate EXCEPT !.local_path =
                  Some([idx |-> idx, title |-> candidate.title])]
        ELSE [candidate EXCEPT !.meta.download_error = Some("download failed"),
                               !.local_path =
                                   Some([idx |-> idx, title |-> candidate.title])]

\* collector._download_candidate: fetched says whether download_file returned
\* (TRUE) or raised after its retries (FALSE).  The path keeps the index and
\* the title it is built from.
_download_candidate(candidate, idx, fetched) ==
    IF fetched
        THEN [candidate EXCEPT !.local_path =
                  Some([idx |-> idx, title |-> candidate.title])]
        ELSE [candidate EXCEPT !.meta.download_error = Some("download failed")]

push_candidate_UrlOnly(agg, cand) ==
    IF cand.image_url \in agg.seen_urls THEN agg
    ELSE [candidates |-> Append(agg.candidates, cand),
          seen_urls |-> agg.seen_urls \cup {cand.image_url},
          seen_titles |-> agg.seen_titles \cup {cand.title}]

\* push_candidate (closure of collect_images_for_celebrity) on the
\* aggregation state [candidates, seen_urls, seen_titles]
push_candidate(agg, cand) ==
    IF cand.image_url \in agg.seen_urls THEN agg
    ELSE IF cand.title \in agg.seen_titles THEN agg
    ELSE [candidates |-> Append(agg.candidates, cand),
          seen_urls |-> agg.seen_urls \cup {cand.image_url},
          seen_titles |-> agg.seen_titles \cup {cand.title}]

(***************************************************************************)
(* Anchor selection: images/anchor_selector.py                             *)
(***************************************************************************)
MAX_ANCHORS == 8
MIN_ANCHORS == 5
MIN_YEAR_GAP == 3

\* the dataclass Anchor
Anchor(year, age, image_path, source, verified) ==
    [year |-> year, age |-> age, image_path |-> image_path,
     source |-> source, verified |-> verified]

\* c.verified_date.year
YearOf(c) == Val(c.verified_date).year

AnchorOf_AgeReversed(c, birth_year) ==
    Anchor(YearOf(c), birth_year - YearOf(c), Val(c.local_path), c.source, TRUE)

\* Anchor(year=year, age=year - birth_year, image_path=lp, source=c.source,
\* verified=True) of lines 88-96 and 146-154
AnchorOf(c, birth_year) ==
    Anchor(YearOf(c), YearOf(c) - birth_year, Val(c.local_path), c.source, TRUE)

\* the filter of Step 1 (lines 54-63)
Eligible(c) ==
    c.verified /\ ~IsNone(c.verified_date) /\ ~IsNone(c.local_path)

\* the filter of _relaxed_selection (lines 120-124)
HasDateAndPath(c) == ~IsNone(c.verified_date) /\ ~IsNone(c.local_path)

RECURSIVE InsertByYear_BeforeEqual(_, _)
InsertByYear_BeforeEqual(sorted, c) ==
    IF sorted = <<>> THEN <<c>>
    ELSE IF YearOf(Head(sorted)) < YearOf(c)
        THEN <<Head(sorted)>> \o InsertByYear_BeforeEqual(Tail(sorted), c)
        ELSE <<c>> \o sorted

\* one insertion of a stable sort: c goes after the elements of its year
RECURSIVE InsertByYear(_, _)
InsertByYear(sorted, c) ==
    IF sorted = <<>> THEN <<c>>
    ELSE IF YearOf(Head(sorted)) <= YearOf(c)
        THEN <<Head(sorted)>> \o InsertByYear(Tail(sorted), c)
        ELSE <<c>> \o sorted

\* dated.sort(key=lambda c: c.verified_date.year): stable, ascending
RECURSIVE SortByYear(_)
SortByYear(cs) ==
    IF cs = <<>> THEN <<>>
    ELSE InsertByYear(SortByYear(SubSeq(cs, 1, Len(cs) - 1)), cs[Len(cs)])

RECURSIVE StrictLoop_GapOffByOne(_, _, _, _)
StrictLoop_GapOffByOne(rest, anchors, last_year, birth_year) ==
    IF rest = <<>> THEN anchors
    ELSE IF ~IsNone(last_year)
            /\ YearOf(Head(rest)) - Val(last_year) < MIN_YEAR_GAP - 1
        THEN StrictLoop_GapOffByOne(Tail(rest), anchors, last_year, birth_year)
    ELSE IF Len(anchors) + 1 >= MAX_ANCHORS
        THEN Append(anchors, AnchorOf(Head(rest), birth_year))
    ELSE StrictLoop_GapOffByOne(Tail(rest),
             Append(anchors, AnchorOf(Head(rest), birth_year)),
             Some(YearOf(Head(rest))), birth_year)

\* the loop of lines 74-102 over the candidates still to visit
RECURSIVE StrictLoop(_, _, _, _)
StrictLoop(rest, anchors, last_year, birth_year) ==
    IF rest = <<>> THEN anchors
    ELSE IF ~IsNone(last_year)
            /\ YearOf(Head(rest)) - Val(last_year) < MIN_YEAR_GAP
        THEN StrictLoop(Tail(rest), anchors, last_year, birth_year)
    ELSE IF Len(anchors) + 1 >= MAX_ANCHORS
        THEN Append(anchors, AnchorOf(Head(rest), birth_year))
    ELSE StrictLoop(Tail(rest), Append(anchors, AnchorOf(Head(rest), birth_year)),
                    Some(YearOf(Head(rest))), birth_year)

TooClose_Inclusive(y, used_years, step) ==
    \E uy \in used_years : (IF y >= uy THEN y - uy ELSE uy - y) <= step

\* "any(abs(y - uy) < step for uy in used_years)"
TooClose(y, used_years, step) ==
    \E uy \in used_years : (IF y >= uy THEN y - uy ELSE uy - y) < step

\* the loop of lines 137-162 over the candidates still to visit
RECURSIVE RelaxedLoop(_, _, _, _, _)
RelaxedLoop(rest, anchors, used_years, step, birth_year) ==
    IF rest = <<>> THEN anchors
    ELSE IF TooClose(YearOf(Head(rest)), used_years, step)
        THEN RelaxedLoop(Tail(rest), anchors, used_years, step, birth_year)
    ELSE IF Len(anchors) + 1 >= MAX_ANCHORS
        THEN Append(anchors, AnchorOf(Head(rest), birth_year))
    ELSE RelaxedLoop(Tail(rest), Append(anchors, AnchorOf(Head(rest), birth_year)),
                     used_years \cup {YearOf(Head(rest))}, step, birth_year)

\* "years = sorted({...})" of the valid candidates
YearsOf(valid) == Sorted({YearOf(valid[i]) : i \in 1..Len(valid)})

StepOf_NoMinimum(years) == (years[Len(years)] - years[1]) \div MAX_ANCHORS

\* "step = max(1, span // MAX_ANCHORS)" with span = years[-1] - years[0]
StepOf(years) == Max2(1, (years[Len(years)] - years[1]) \div MAX_ANCHORS)

RelaxedOver_NeedsThree(valid, birth_year) ==
    IF Len(YearsOf(valid)) < 3
        THEN [ok |-> FALSE, anchors |-> <<>>]
        ELSE [ok |-> TRUE,
              anchors |-> RelaxedLoop(valid, <<>>, {}, StepOf(YearsOf(valid)),
                                      birth_year)]

RelaxedOver(valid, birth_year) ==
    IF Len(YearsOf(valid)) < 2
        THEN [ok |-> FALSE, anchors |-> <<>>]
        ELSE [ok |-> TRUE,
              anchors |-> RelaxedLoop(valid, <<>>, {}, StepOf(YearsOf(valid)),
                                      birth_year)]

\* anchor_selector._relaxed_selection; ok is FALSE when it raises
_relaxed_selection(cands, birth_year) ==
    RelaxedOver(SelectSeq(cands, HasDateAndPath), birth_year)

Fallback_LowerThreshold(strict, dated, birth_year) ==
    IF Len(strict) < MIN_ANCHORS - 1
        THEN [status |-> IF _relaxed_selection(dated, birth_year).ok
                             THEN "ok" ELSE "no_diversity",
              mode |-> "relaxed",
              anchors |-> _relaxed_selection(dated, birth_year).anchors]
        ELSE [status |-> "ok", mode |-> "strict", anchors |-> strict]

\* Step 3 (lines 104-108) on the strict anchors and the sorted list
Fallback(strict, dated, birth_year) ==
    IF Len(strict) < MIN_ANCHORS
        THEN [status |-> IF _relaxed_selection(dated, birth_year).ok
                             THEN "ok" ELSE "no_diversity",
              mode |-> "relaxed",
              anchors |-> _relaxed_selection(dated, birth_year).anchors]
        ELSE [status |-> "ok", mode |-> "strict", anchors |-> strict]

SelectFrom_FallbackUnsorted(dated, birth_year) ==
    Fallback(StrictLoop(SortByYear(dated), <<>>, None, birth_year),
             dated, birth_year)

\* Step 2 and the strict loop on the filtered list: sort is in place, so
\* the fallback is handed the sorted list
SelectFrom(dated, birth_year) ==
    Fallback(StrictLoop(SortByYear(dated), <<>>, None, birth_year),
             SortByYear(dated), birth_year)

select_anchors_NoEmptyCheck(manifest, birth_year) ==
    SelectFrom(SelectSeq(manifest.candidates, Eligible), birth_year)

\* anchor_selector.select_anchors: status says how the call ended
\* ("no_eligible", "no_diversity": the two RuntimeErrors), mode which
\* selection produced the anchors
select_anchors(manifest, birth_year) ==
    IF SelectSeq(manifest.candidates, Eligible) = <<>>
        THEN [status |-> "no_eligible", mode |-> "none", anchors |-> <<>>]
        ELSE SelectFrom(SelectSeq(manifest.candidates, Eligible), birth_year)

(***************************************************************************)
(* Bounds and program constants                                            *)
(***************************************************************************)
\* longest result list one adapter call returns
MaxResults == 2
\* calls of collect_images_for_celebrity in one behaviour
MaxCalls == 3

\* settings.target_year_end
TargetYearEnd == 2025
\* max_downloads of collect_images_for_celebrity
max_downloads == 140

\* the birth years tried: the year-aware loops start at birth_year + 10 and
\* make two turns or one
BirthYears == {TargetYearEnd - 11, TargetYearEnd - 10}

(***************************************************************************)
(* The environment: what the providers and the web hold.  A title or URL   *)
(* is a pair <<text, n>> so that the per-year titles and URLs are values   *)
(* of the same kind; <<"", 0>> is the empty string.                        *)
(***************************************************************************)
Str(text) == <<text, 0>>
EmptyStr == Str("")

C_2023o == <<"2","0","2","3","-","0","5","-","1","7"," ","1","3",":","4","4",":","0","2">>
C_2024c == <<"2","0","2","4",":","0","6",":","0","1"," ","0","9",":","0","0",":","0","0">>
C_198q  == <<"1","9","8","?","-","0","6","-","1","5">>
C_circa == <<"c","i","r","c","a"," ","1","9","9","0">>
E_2024  == <<"2","0","2","4",":","0","5",":","1","7"," ","1","3",":","4","4",":","0","2">>
E_2010  == <<"2","0","1","0","-","0","1","-","0","1">>
E_bad   == <<"n","o","t","-","a","-","d","a","t","e">>

NoExtmeta ==
    [DateTimeOriginal |-> None, DateTimeDigitized |-> None,
     DateTime |-> None, Date |-> None]

CommonsImage(title, image_url, extmeta) ==
    [title |-> title, image_url |-> image_url, extmeta |-> extmeta]

\* fetch_commons_images(search_commons_files(name, limit=40)), ranked
CommonsBroad ==
    << CommonsImage(Str("File:A"), Str("w1"),
                    [NoExtmeta EXCEPT !.DateTimeOriginal = Some(C_2023o)]),
       CommonsImage(Str("File:B"), Str("w1"), NoExtmeta),
       CommonsImage(Str("File:C"), Str("w3"),
                    [NoExtmeta EXCEPT !.Date = Some(C_198q)]) >>

\* fetch_commons_images(search_commons_files(f"{name} {year}", limit=8))
CommonsYear(year) ==
    << CommonsImage(Str("File:A"), Str("w2"),
                    [NoExtmeta EXCEPT !.DateTimeOriginal = Some(C_circa),
                                      !.DateTime = Some(C_2024c)]),
       CommonsImage(<<"File:Y", year>>, <<"wy", year>>,
                    [NoExtmeta EXCEPT !.Date = Some(C_198q)]),
       CommonsImage(Str("File:E"), Str("w1"), NoExtmeta) >>

\* fetch_wikipedia_page_images(name, limit=10): titles and FilePath URLs
WikipediaPageImages ==
    << [title |-> Str("File:A"), image_url |-> Str("fpA")],
       [title |-> Str("File:D"), image_url |-> Str("fpD")] >>

\* fetch_imdb_images(name, limit=20): every title is "imdb_image"
ImdbImages ==
    << [title |-> Str("imdb_image"), image_url |-> Str("i1")],
       [title |-> Str("imdb_image"), image_url |-> Str("i2")] >>

\* search_bing_images(query, limit=5): the murl pattern also matches ""
BingResults(year) ==
    IF year = TargetYearEnd
        THEN << [image_url |-> Str("w1")], [image_url |-> <<"b", year>>] >>
        ELSE << [image_url |-> EmptyStr], [image_url |-> <<"b", year>>] >>

\* search_google_images_serpapi(query, limit=3): raw images_results
SerpapiRaw(year) ==
    << [original |-> EmptyStr, thumbnail |-> EmptyStr],
       [original |-> <<"b", year>>, thumbnail |-> Str("s1")],
       [original |-> EmptyStr, thumbnail |-> Str("s1")] >>

NoExif == [DateTimeOriginal |-> None, DateTimeDigitized |-> None, DateTime |-> None]

\* the EXIF block of the image a URL serves (None: no block, or unreadable)
WebFile(url) ==
    IF url = Str("w1") THEN Some([NoExif EXCEPT !.DateTimeOriginal = Some(E_2024)])
    ELSE IF url \in {Str("fpA"), Str("fpD")}
        THEN Some([NoExif EXCEPT !.DateTime = Some(E_2010)])
    ELSE IF url = Str("i1")
        THEN Some([NoExif EXCEPT !.DateTimeOriginal = Some(E_bad),
                                 !.DateTimeDigitized = Some(E_2024)])
    ELSE None

\* how many candidates more than max_downloads the longest list of the
\* download stage has
MaxOver == 1

\* image i of a Commons search with many hits: the first is dated 2023 and
\* those past max_downloads are dated 2024
BulkImage(i) ==
    CommonsImage(<<"File:N", i>>, <<"wn", i>>,
        IF i = 1 THEN [NoExtmeta EXCEPT !.DateTimeOriginal = Some(C_2023o)]
        ELSE IF i > max_downloads
            THEN [NoExtmeta EXCEPT !.DateTime = Some(C_2024c)]
        ELSE NoExtmeta)

\* the URLs download_file always fetches
SteadyUrls == {<<"wn", i>> : i \in 3..(max_downloads - 2)}

\* whether download_file can return (TRUE) or raise after its retries
\* (FALSE) for a URL: it raises on the empty URL on every attempt
FetchOutcomes(url) ==
    IF url = EmptyStr THEN {FALSE}
    ELSE IF url \in SteadyUrls THEN {TRUE}
    ELSE BOOLEAN

\* the result lists an adapter call may return: the ranked list cut to any
\* length up to MaxResults
Cuts(ranked) == {SubSeq(ranked, 1, n) : n \in 0..Min2(MaxResults, Len(ranked))}

(***************************************************************************)
(* The queue of subjects: utils/slug.py, utils/celebrity_queue.py,         *)
(* main.extract_birth_year                                                 *)
(***************************************************************************)
\* str.lower() over the capitals the model's names are made of
LowerOf(c) ==
    CASE c = "A" -> "a" [] c = "B" -> "b" [] c = "C" -> "c" [] OTHER -> c

\* the characters the pattern [^a-z0-9\s_-] keeps
SlugChars ==
    {"a", "b", "c", "d", "e", "f", "g", "h", "i", "j", "k", "l", "m", "n",
     "o", "p", "q", "r", "s", "t", "u", "v", "w", "x", "y", "z"}
        \cup Digits \cup {" ", "_", "-"}

SlugSeparators == {" ", "_", "-"}

\* re.sub(r"[\s_-]+", "_", s)
RECURSIVE CollapseSeparators(_)
CollapseSeparators(s) ==
    IF s = <<>> THEN <<>>
    ELSE IF Head(s) \in SlugSeparators
        THEN IF Len(s) > 1 /\ s[2] \in SlugSeparators
                THEN CollapseSeparators(Tail(s))
                ELSE <<"_">> \o CollapseSeparators(Tail(s))
        ELSE <<Head(s)>> \o CollapseSeparators(Tail(s))

\* s.strip("_")
RECURSIVE StripUnderscores(_)
StripUnderscores(s) ==
    IF s # <<>> /\ Head(s) = "_" THEN StripUnderscores(Tail(s))
    ELSE IF s # <<>> /\ s[Len(s)] = "_"
        THEN StripUnderscores(SubSeq(s, 1, Len(s) - 1))
        ELSE s

IsSlugChar(c) == c \in SlugChars

\* utils/slug.py
slugify(name) ==
    LET lowered == [i \in 1..Len(Strip(name)) |-> LowerOf(Strip(name)[i])]
    IN  StripUnderscores(CollapseSeparators(SelectSeq(lowered, IsSlugChar)))

\* a JSON object with no keys
EmptyMap == [n \in {} |-> n]

\* load_queue: the entries of queue.json, stripped, the blank ones dropped
IsNotBlank(x) == Strip(x) # <<>>

load_queue(data) ==
    [i \in 1..Len(SelectSeq(data, IsNotBlank)) |->
        Strip(SelectSeq(data, IsNotBlank)[i])]

\* load_used: read_json(settings.used_file, default={})
load_used(file) == IF IsNone(file) THEN EmptyMap ELSE Val(file)

\* the loop of get_next_celebrity over names not in used
RECURSIVE FirstUnused(_, _)
FirstUnused(queue, used) ==
    IF queue = <<>> THEN None
    ELSE IF Head(queue) \notin DOMAIN used THEN Some(Head(queue))
    ELSE FirstUnused(Tail(queue), used)

get_next_celebrity_LatestUnused(queueData, usedData) ==
    FirstUnused([i \in 1..Len(load_queue(queueData)) |->
                    load_queue(queueData)[Len(load_queue(queueData)) + 1 - i]],
                load_used(usedData))

\* celebrity_queue.get_next_celebrity on the two files
get_next_celebrity(queueData, usedData) ==
    FirstUnused(load_queue(queueData), load_used(usedData))

\* the map mark_used writes: used[name] = {processed_at, step}
UsedWith(used, name, now) ==
    [n \in DOMAIN used \cup {name} |->
        IF n = name THEN [processed_at |-> now, step |-> "completed"]
        ELSE used[n]]

\* main.extract_birth_year on an ISO string: int(birth_date[:4])
extract_birth_year(birth_date) == IntParse(Prefix(birth_date, 4))

(***************************************************************************)
(* State of one process calling collect_images_for_celebrity               *)
(***************************************************************************)
VARIABLES
    pc,            \* position in collect_images_for_celebrity
    force,         \* the force argument of the current call
    birth_year,    \* the birth_year argument
    serpapi_key,   \* settings.serpapi_key is set
    manifestFile,  \* data/images_manifests/<slug>.json: None or Some(document)
    candidates,    \* the local list candidates
    seen_urls,
    seen_titles,
    cand,          \* the object the local name cand is bound to, if any
    year,          \* the loop variable of the current year-aware loop
    downloaded,    \* the local list downloaded
    ret,           \* the value the last call returned, if any
    outcome,       \* "none" | "returned" | "raised" for the last call
    cached,        \* history: the last call took the cache branch
    invoked,       \* history: adapter calls of this call, {<<adapter, year>>}
    failed,        \* history: the adapter calls of this call that raised
    offered,       \* history: the candidates the last adapter step passed to
                   \* push_candidate, in order
    fetches,       \* history: the indices _download_candidate was called with
    writes,        \* history: write_json calls on the manifest file
    calls          \* history: calls started

collectorVars ==
    <<pc, force, birth_year, serpapi_key, manifestFile, candidates, seen_urls,
      seen_titles, cand, year, downloaded, ret, outcome, cached, invoked,
      failed, offered, fetches, writes, calls>>

VARIABLES
    sel_pc,        \* "off", "build" (the manifest grows) or "selected"
    sel_manifest,  \* manifest.candidates handed to select_anchors
    sel_birth,     \* the birth_year argument
    sel_result,    \* what select_anchors did: [status, mode, anchors]
    sel_strict     \* history: the strict selection select_anchors made before any fallback

anchorVars == <<sel_pc, sel_manifest, sel_birth, sel_result, sel_strict>>

VARIABLES
    usedFile,      \* data/cache/used_names.json: None or Some(map)
    factsFiles,    \* data/facts/<slug>.json, by slug: None or Some(facts)
    manifestFiles, \* data/images_manifests/<slug>.json, by slug
    anchorFiles,   \* data/anchors/<slug>.json, by slug
    run,           \* by process: the invocation of main() it is in
    clock          \* datetime.now(), in ticks

queueVars ==
    <<usedFile, factsFiles, manifestFiles, anchorFiles, run, clock>>

VARIABLES
    dl_pc,         \* position in download_file
    dl_retries,    \* the retries argument
    dl_attempt,    \* the loop variable attempt
    dl_sent,       \* the chunks the response of this attempt carries
    dl_pos,        \* chunks of it iter_content has yielded
    dl_tmp,        \* the file at out_path + ".part": None or Some(content)
    dl_final,      \* the file at out_path: None or Some(content)
    dl_last_err,   \* last_err: None or Some(the attempt that raised it)
    dl_initial,    \* history: the file at out_path when the call started
    dl_tried       \* history: attempts started

downloaderVars ==
    <<dl_pc, dl_retries, dl_attempt, dl_sent, dl_pos, dl_tmp, dl_final,
      dl_last_err, dl_initial, dl_tried>>

\* what each of the four state machines leaves alone
outsideCollector == <<anchorVars, queueVars, downloaderVars>>
outsideAnchors == <<collectorVars, queueVars, downloaderVars>>
outsideQueue == <<collectorVars, anchorVars, downloaderVars>>
outsideDownloader == <<collectorVars, anchorVars, queueVars>>

start_year == birth_year + 10
current_year == TargetYearEnd

Agg == [candidates |-> candidates, seen_urls |-> seen_urls,
        seen_titles |-> seen_titles]

RECURSIVE PushAll(_, _)
PushAll(agg, cands) ==
    IF cands = <<>> THEN agg
    ELSE PushAll(push_candidate(agg, Head(cands)), Tail(cands))

\* push the candidates a loop built, in order, and record them as offered
Push(cands) ==
    /\ candidates' = PushAll(Agg, cands).candidates
    /\ seen_urls' = PushAll(Agg, cands).seen_urls
    /\ seen_titles' = PushAll(Agg, cands).seen_titles
    /\ offered' = cands

\* the candidate built from one CommonsImage (lines 193-203, 218-229)
CommonsCandidate(ci, d, query_year) ==
    ImageCandidate("wikimedia", ci.title, ci.image_url,
        [EmptyMeta EXCEPT !.commons_date = d.date,
                          !.commons_date_method = d.method,
                          !.query_year = query_year])

CommonsStep(v, rest) ==
    IF ~v.ok THEN [ok |-> FALSE, cands |-> <<>>, cand |-> Some(v.cand)]
    ELSE [ok |-> rest.ok, cands |-> <<v.cand>> \o rest.cands,
          cand |-> IF IsNone(rest.cand) THEN Some(v.cand) ELSE rest.cand]

\* the loop "for ci in commons_imgs" of SOURCE 1: the verified candidates it
\* passes to push_candidate, up to the first one on which
\* _verify_with_commons raises, and the last object bound to cand
RECURSIVE CommonsLoop(_, _)
CommonsLoop(imgs, query_year) ==
    IF imgs = <<>> THEN [ok |-> TRUE, cands |-> <<>>, cand |-> None]
    ELSE CommonsStep(
             _verify_with_commons(
                 CommonsCandidate(Head(imgs),
                     _extract_extmeta_date(Head(imgs).extmeta), query_year)),
             CommonsLoop(Tail(imgs), query_year))

\* str(it.get(key) or default)
OrDefault(value, default) == IF value = EmptyStr THEN default ELSE value

\* the candidates of SOURCE 2 and SOURCE 3 for the items of one adapter
ItemLoop(items, source, default_title) ==
    [i \in 1..Len(items) |->
        ImageCandidate(source, OrDefault(items[i].title, default_title),
                       OrDefault(items[i].image_url, EmptyStr), EmptyMeta)]

\* build_portrait_query titles: f"{celebrity_name} portrait {year}"
PortraitTitle(y) == <<"N portrait", y>>

\* the candidates of SOURCE 4 and SOURCE 5 for the results of one year
YearLoop(items, source, y) ==
    [i \in 1..Len(items) |->
        ImageCandidate(source, PortraitTitle(y), items[i].image_url,
                       [EmptyMeta EXCEPT !.query_year = Some(y)])]

\* serpapi_images.to_candidate_items: original or thumbnail, else skipped
RECURSIVE to_candidate_items(_)
to_candidate_items(raw) ==
    IF raw = <<>> THEN <<>>
    ELSE LET it == Head(raw)
             img == IF it.original # EmptyStr THEN it.original ELSE it.thumbnail
         IN  IF img = EmptyStr THEN to_candidate_items(Tail(raw))
             ELSE <<[image_url |-> img]>> \o to_candidate_items(Tail(raw))

VerifiedAndDated(c) == c.verified /\ ~IsNone(c.verified_date)

BuildManifest_YearsInListOrder(dl) ==
    [celebrity_name |-> "N", celebrity_slug |-> "n",
     target_year_end |-> TargetYearEnd,
     candidates |-> dl,
     verified_years |->
         [k \in 1..Len(SelectSeq(dl, VerifiedAndDated)) |->
             Val(SelectSeq(dl, VerifiedAndDated)[k].verified_date).year],
     verified_count |-> Cardinality({i \in 1..Len(dl) : dl[i].verified})]

\* ImageManifest(...) of BUILD MANIFEST
BuildManifest(dl) ==
    [celebrity_name |-> "N", celebrity_slug |-> "n",
     target_year_end |-> TargetYearEnd,
     candidates |-> dl,
     verified_years |->
         Sorted({Val(dl[i].verified_date).year :
                    i \in {j \in 1..Len(dl) :
                              dl[j].verified /\ ~IsNone(dl[j].verified_date)}}),
     verified_count |-> Cardinality({i \in 1..Len(dl) : dl[i].verified})]

\* manifest.model_dump(): the JSON document, field by field
model_dump(m) ==
    [celebrity_name |-> m.celebrity_name, celebrity_slug |-> m.celebrity_slug,
     target_year_end |-> m.target_year_end, candidates |-> m.candidates,
     verified_years |-> m.verified_years, verified_count |-> m.verified_count]

\* ImageManifest.model_validate(document)
model_validate(doc) ==
    [celebrity_name |-> doc.celebrity_name, celebrity_slug |-> doc.celebrity_slug,
     target_year_end |-> doc.target_year_end, candidates |-> doc.candidates,
     verified_years |-> doc.verified_years, verified_count |-> doc.verified_count]

(***************************************************************************)
(* collect_images_for_celebrity, one action per adapter call or step       *)
(***************************************************************************)
\* a manifest file left by an earlier run in which every adapter failed
EmptyManifestDoc == model_dump(BuildManifest(<<>>))

CollectorInit ==
    /\ pc = "idle"
    /\ force = FALSE
    /\ \/ /\ manifestFile = None
          /\ birth_year \in BirthYears
          /\ serpapi_key \in BOOLEAN
       \/ /\ manifestFile = Some(EmptyManifestDoc)
          /\ birth_year = TargetYearEnd - 10
          /\ serpapi_key = FALSE
    /\ candidates = <<>>
    /\ seen_urls = {}
    /\ seen_titles = {}
    /\ cand = None
    /\ year = 0
    /\ downloaded = <<>>
    /\ ret = None
    /\ outcome = "none"
    /\ cached = FALSE
    /\ invoked = {}
    /\ failed = {}
    /\ offered = <<>>
    /\ fetches = <<>>
    /\ writes = 0
    /\ calls = 0

RecencyOfDoc(doc) ==
    \E i \in 1..Len(doc.verified_years) :
        doc.verified_years[i] >= doc.target_year_end - 1

Call_RevalidatesCache(f) ==
    /\ UNCHANGED outsideCollector
    /\ pc \in {"idle", "done"}
    /\ calls < MaxCalls
    /\ pc = "done" => ~f
    /\ calls' = calls + 1
    /\ force' = f
    /\ candidates' = <<>>
    /\ seen_urls' = {}
    /\ seen_titles' = {}
    /\ cand' = None
    /\ year' = 0
    /\ downloaded' = <<>>
    /\ invoked' = {}
    /\ failed' = {}
    /\ offered' = <<>>
    /\ fetches' = <<>>
    /\ IF ~IsNone(manifestFile) /\ ~f
           THEN /\ ret' = Some(model_validate(Val(manifestFile)))
                /\ outcome' = IF RecencyOfDoc(Val(manifestFile))
                                  THEN "returned" ELSE "raised"
                /\ cached' = TRUE
                /\ pc' = "done"
           ELSE /\ ret' = None
                /\ outcome' = "none"
                /\ cached' = FALSE
                /\ pc' = "wikimedia"
    /\ UNCHANGED <<birth_year, serpapi_key, manifestFile, writes>>

\* lines 152-181: the cache check, then the fresh locals.  After a finished
\* call only non-forced calls are made (a bound of the model).
Call(f) ==
    /\ UNCHANGED outsideCollector
    /\ pc \in {"idle", "done"}
    /\ calls < MaxCalls
    /\ pc = "done" => ~f
    /\ calls' = calls + 1
    /\ force' = f
    /\ candidates' = <<>>
    /\ seen_urls' = {}
    /\ seen_titles' = {}
    /\ cand' = None
    /\ year' = 0
    /\ downloaded' = <<>>
    /\ invoked' = {}
    /\ failed' = {}
    /\ offered' = <<>>
    /\ fetches' = <<>>
    /\ IF ~IsNone(manifestFile) /\ ~f
           THEN /\ ret' = Some(model_validate(Val(manifestFile)))
                /\ outcome' = "returned"
                /\ cached' = TRUE
                /\ pc' = "done"
           ELSE /\ ret' = None
                /\ outcome' = "none"
                /\ cached' = FALSE
                /\ pc' = "wikimedia"
    /\ UNCHANGED <<birth_year, serpapi_key, manifestFile, writes>>

\* an adapter call raised and its try block caught it: nothing is pushed
Caught(call) ==
    /\ failed' = failed \cup {call}
    /\ offered' = <<>>
    /\ UNCHANGED <<candidates, seen_urls, seen_titles>>

\* where the year-aware Commons loop goes after the turn for year y
AfterCommonsYear(y) ==
    IF y + 2 <= current_year
        THEN pc' = "wikimedia_year" /\ year' = y + 2
        ELSE pc' = "wikipedia_page" /\ year' = y

\* the Commons try block is left by an exception (line 232)
CommonsAborted(call) ==
    /\ failed' = failed \cup {call}
    /\ pc' = "wikipedia_page"
    /\ year' = year

\* SOURCE 1 A (lines 188-204): the broad Commons query
WikimediaBroad ==
    /\ UNCHANGED outsideCollector
    /\ pc = "wikimedia"
    /\ invoked' = invoked \cup {<<"wikimedia", 0>>}
    /\ \/ \* search_commons_files or fetch_commons_images raises
          /\ Caught(<<"wikimedia", 0>>)
          /\ pc' = "wikipedia_page"
          /\ UNCHANGED <<cand, year>>
       \/ \E imgs \in Cuts(CommonsBroad) :
            LET r == CommonsLoop(imgs, None)
            IN  /\ Push(r.cands)
                /\ cand' = IF IsNone(r.cand) THEN cand ELSE r.cand
                /\ IF ~r.ok THEN CommonsAborted(<<"wikimedia", 0>>)
                   ELSE /\ UNCHANGED failed
                        /\ IF start_year <= current_year
                               THEN pc' = "wikimedia_year" /\ year' = start_year
                               ELSE pc' = "wikipedia_page" /\ year' = year
    /\ UNCHANGED <<force, birth_year, serpapi_key, manifestFile, downloaded,
                   ret, outcome, cached, fetches, writes, calls>>

\* SOURCE 1 B (lines 206-233): one turn of the year-aware Commons loop
WikimediaYear ==
    /\ UNCHANGED outsideCollector
    /\ pc = "wikimedia_year"
    /\ invoked' = invoked \cup {<<"wikimedia", year>>}
    /\ \/ \* search_commons_files or fetch_commons_images raises
          /\ Caught(<<"wikimedia", year>>)
          /\ pc' = "wikipedia_page"
          /\ UNCHANGED <<cand, year>>
       \/ \E imgs \in Cuts(CommonsYear(year)) :
            LET r == CommonsLoop(imgs, Some(year))
            IN  /\ Push(r.cands)
                /\ cand' = IF IsNone(r.cand) THEN cand ELSE r.cand
                /\ IF ~r.ok THEN CommonsAborted(<<"wikimedia", year>>)
                   ELSE UNCHANGED failed /\ AfterCommonsYear(year)
    /\ UNCHANGED <<force, birth_year, serpapi_key, manifestFile, downloaded,
                   ret, outcome, cached, fetches, writes, calls>>

\* SOURCE 2 (lines 240-252)
WikipediaPage ==
    /\ UNCHANGED outsideCollector
    /\ pc = "wikipedia_page"
    /\ invoked' = invoked \cup {<<"wikipedia_page", 0>>}
    /\ \/ Caught(<<"wikipedia_page", 0>>)
       \/ \E items \in Cuts(WikipediaPageImages) :
            /\ Push(ItemLoop(items, "wikipedia_page", Str("N wikipedia")))
            /\ UNCHANGED failed
    /\ pc' = "imdb"
    /\ UNCHANGED <<force, birth_year, serpapi_key, manifestFile, cand, year,
                   downloaded, ret, outcome, cached, fetches, writes, calls>>

\* where the run goes once the Bing loop is over (line 301)
AfterBing ==
    IF serpapi_key /\ start_year <= current_year
        THEN pc' = "serpapi" /\ year' = start_year
        ELSE pc' = "download" /\ year' = year

\* SOURCE 3 (lines 259-271)
Imdb ==
    /\ UNCHANGED outsideCollector
    /\ pc = "imdb"
    /\ invoked' = invoked \cup {<<"imdb", 0>>}
    /\ \/ Caught(<<"imdb", 0>>)
       \/ \E items \in Cuts(ImdbImages) :
            /\ Push(ItemLoop(items, "imdb", Str("N imdb")))
            /\ UNCHANGED failed
    /\ IF start_year <= current_year
           THEN pc' = "bing" /\ year' = start_year
           ELSE AfterBing
    /\ UNCHANGED <<force, birth_year, serpapi_key, manifestFile, cand,
                   downloaded, ret, outcome, cached, fetches, writes, calls>>

\* where the Bing loop goes after the turn for the current year
BingAdvance ==
    IF year + 1 <= current_year
        THEN pc' = "bing" /\ year' = year + 1
        ELSE AfterBing

BingFailure_Propagates ==
    /\ failed' = failed \cup {<<"bing", year>>}
    /\ offered' = <<>>
    /\ outcome' = "raised"
    /\ pc' = "done"
    /\ UNCHANGED <<candidates, seen_urls, seen_titles, year>>

\* search_bing_images raises and the except clause of the turn (lines
\* 294-295) logs it: the loop goes on with the next year
BingFailure ==
    /\ Caught(<<"bing", year>>)
    /\ UNCHANGED outcome
    /\ BingAdvance

\* SOURCE 4 (lines 278-295): one turn of the Bing loop, its own try
Bing ==
    /\ UNCHANGED outsideCollector
    /\ pc = "bing"
    /\ invoked' = invoked \cup {<<"bing", year>>}
    /\ \/ BingFailure
       \/ \E results \in Cuts(BingResults(year)) :
            /\ Push(YearLoop(results, "bing", year))
            /\ UNCHANGED <<failed, outcome>>
            /\ BingAdvance
    /\ UNCHANGED <<force, birth_year, serpapi_key, manifestFile, cand,
                   downloaded, ret, cached, fetches, writes, calls>>

\* SOURCE 5 (lines 301-318): one turn of the SerpAPI loop, its own try;
\* search_google_images_serpapi returns [] on its own failures, the try
\* catches what to_candidate_items and ImageCandidate raise
Serpapi ==
    /\ UNCHANGED outsideCollector
    /\ pc = "serpapi"
    /\ invoked' = invoked \cup {<<"serpapi", year>>}
    /\ \/ Caught(<<"serpapi", year>>)
       \/ \E raw \in Cuts(SerpapiRaw(year)) :
            /\ Push(YearLoop(to_candidate_items(raw), "serpapi", year))
            /\ UNCHANGED failed
    /\ IF year + 3 <= current_year
           THEN pc' = "serpapi" /\ year' = year + 3
           ELSE pc' = "download" /\ year' = year
    /\ UNCHANGED <<force, birth_year, serpapi_key, manifestFile, cand,
                   downloaded, ret, outcome, cached, fetches, writes, calls>>

DownloadLimit_NoBudget == Len(candidates)

\* "candidates[:max_downloads]"
DownloadLimit == Min2(Len(candidates), max_downloads)

\* lines 330-332 for one candidate: download, then the EXIF verifier
DownloadAndVerify(c, idx, fetched) ==
    _verify_with_exif(_download_candidate(c, idx, fetched), WebFile(c.image_url))

Download_RetriesFailed ==
    /\ UNCHANGED outsideCollector
    /\ pc = "download"
    /\ Len(downloaded) < DownloadLimit
    /\ \E fetched \in FetchOutcomes(candidates[Len(downloaded) + 1].image_url) :
         /\ LET idx == Len(downloaded) + 1
                v == DownloadAndVerify(candidates[idx], idx, fetched)
            IN  /\ candidates' = [candidates EXCEPT ![idx] = v.cand]
                /\ cand' = Some(v.cand)
                /\ fetches' = Append(fetches, idx)
                /\ IF v.ok
                       THEN /\ downloaded' = IF fetched THEN Append(downloaded, v.cand)
                                               ELSE downloaded
                            /\ UNCHANGED <<pc, outcome>>
                       ELSE /\ pc' = "done"
                            /\ outcome' = "raised"
                            /\ UNCHANGED downloaded
    /\ UNCHANGED <<force, birth_year, serpapi_key, manifestFile, seen_urls,
                   seen_titles, year, ret, cached, invoked, failed, offered,
                   writes, calls>>

\* lines 329-332: one turn of the download loop.  The list element, the
\* local cand and the element appended to downloaded are one object.
\* download_file on the empty URL raises on every attempt.
Download ==
    /\ UNCHANGED outsideCollector
    /\ pc = "download"
    /\ Len(downloaded) < DownloadLimit
    /\ \E fetched \in FetchOutcomes(candidates[Len(downloaded) + 1].image_url) :
         /\ LET idx == Len(downloaded) + 1
                v == DownloadAndVerify(candidates[idx], idx, fetched)
            IN  /\ candidates' = [candidates EXCEPT ![idx] = v.cand]
                /\ cand' = Some(v.cand)
                /\ fetches' = Append(fetches, idx)
                /\ IF v.ok
                       THEN /\ downloaded' = Append(downloaded, v.cand)
                            /\ UNCHANGED <<pc, outcome>>
                       ELSE /\ pc' = "done"
                            /\ outcome' = "raised"
                            /\ UNCHANGED downloaded
    /\ UNCHANGED <<force, birth_year, serpapi_key, manifestFile, seen_urls,
                   seen_titles, year, ret, cached, invoked, failed, offered,
                   writes, calls>>

\* what the run does once the manifest is written (lines 354-360): the code
\* has no check of verified_years against target_year_end, it returns
AfterWrite(manifest) == [raise |-> FALSE, value |-> Some(manifest)]

\* lines 338-352: build the manifest and write it
WriteManifest ==
    /\ UNCHANGED outsideCollector
    /\ pc = "download"
    /\ Len(downloaded) = DownloadLimit
    /\ manifestFile' = Some(model_dump(BuildManifest(downloaded)))
    /\ writes' = writes + 1
    /\ pc' = "return"
    /\ UNCHANGED <<force, birth_year, serpapi_key, candidates, seen_urls,
                   seen_titles, cand, year, downloaded, ret, outcome, cached,
                   invoked, failed, offered, fetches, calls>>

\* lines 354-360
Return ==
    /\ UNCHANGED outsideCollector
    /\ pc = "return"
    /\ ret' = AfterWrite(BuildManifest(downloaded)).value
    /\ outcome' = IF AfterWrite(BuildManifest(downloaded)).raise
                      THEN "raised" ELSE "returned"
    /\ pc' = "done"
    /\ UNCHANGED <<force, birth_year, serpapi_key, manifestFile, candidates,
                   seen_urls, seen_titles, cand, year, downloaded, cached,
                   invoked, failed, offered, fetches, writes, calls>>

CollectorNext ==
    \/ \E f \in BOOLEAN : Call(f)
    \/ WikimediaBroad
    \/ WikimediaYear
    \/ WikipediaPage
    \/ Imdb
    \/ Bing
    \/ Serpapi
    \/ Download
    \/ WriteManifest
    \/ Return

(***************************************************************************)
(* The download stage of a run that aggregated a long list                 *)
(***************************************************************************)
\* the candidate SOURCE 1 builds from image i and verifies
BulkCandidate(i) ==
    _verify_with_commons(
        CommonsCandidate(BulkImage(i), _extract_extmeta_date(BulkImage(i).extmeta),
                         None)).cand

BulkList(n) == [i \in 1..n |-> BulkCandidate(i)]

\* a fresh run at line 324: Commons gave n candidates, the other adapters
\* were called and gave none
BudgetInit ==
    /\ pc = "download"
    /\ force = FALSE
    /\ manifestFile = None
    /\ birth_year = TargetYearEnd - 10
    /\ serpapi_key = FALSE
    /\ \E n \in (max_downloads - 1)..(max_downloads + MaxOver) :
          /\ candidates = BulkList(n)
          /\ seen_urls = {BulkList(n)[i].image_url : i \in 1..n}
          /\ seen_titles = {BulkList(n)[i].title : i \in 1..n}
          /\ cand = Some(BulkList(n)[n])
    /\ year = TargetYearEnd
    /\ downloaded = <<>>
    /\ ret = None
    /\ outcome = "none"
    /\ cached = FALSE
    /\ invoked = {<<"wikimedia", 0>>, <<"wikipedia_page", 0>>, <<"imdb", 0>>,
                  <<"bing", TargetYearEnd>>}
    /\ failed = {}
    /\ offered = <<>>
    /\ fetches = <<>>
    /\ writes = 0
    /\ calls = 1

BudgetNext ==
    \/ Download
    \/ WriteManifest
    \/ Return

(***************************************************************************)
(* select_anchors on the manifests acquisition can leave behind            *)
(***************************************************************************)
\* longest manifest handed to select_anchors
MaxCands == 9
\* the candidates of a manifest up to this position take any step of
\* Deltas, the later ones a step of TailDeltas
MaxFree == 3
\* candidates that are not eligible occur up to this position
MaxMixed == 1

\* the year of the first dated candidate, and the steps from the year of one
\* dated candidate to the next one in manifest order
BaseYear == TargetYearEnd - 25
Deltas == {0 - 2, 0, 3, 17}
TailDeltas == {1, 3}
SelBirthYears == {BaseYear - 40, 1974}

YearChars(y) ==
    <<DigitChar(y \div 1000), DigitChar((y \div 100) % 10),
      DigitChar((y \div 10) % 10), DigitChar(y % 10)>>

\* a Commons DateTimeOriginal value and an EXIF DateTime value of year y
CommonsStamp(y) == YearChars(y) \o <<"-", "0", "6", "-", "1", "5">>
ExifStamp(y) ==
    YearChars(y) \o <<":", "0", "6", ":", "1", "5", " ",
                      "1", "2", ":", "0", "0", ":", "0", "0">>

\* lines 193-203: the verified candidate of a Commons image
CommonsVerified(ci) ==
    _verify_with_commons(
        CommonsCandidate(ci, _extract_extmeta_date(ci.extmeta), None)).cand

\* a Commons image dated y, downloaded as the n-th candidate
DatedByCommons(n, y) ==
    _download_candidate(
        CommonsVerified(CommonsImage(<<"File:S", n>>, <<"s", n>>,
            [NoExtmeta EXCEPT !.DateTimeOriginal = Some(CommonsStamp(y))])),
        n, TRUE)

\* a Wikipedia page image, downloaded as the n-th candidate, that file
PageImage(n, file) ==
    _verify_with_exif(
        _download_candidate(
            ImageCandidate("wikipedia_page", <<"File:P", n>>, <<"fp", n>>,
                           EmptyMeta), n, TRUE),
        file).cand

\* a page image whose file carries an EXIF DateTime of year y
DatedByExif(n, y) ==
    PageImage(n, Some([NoExif EXCEPT !.DateTime = Some(ExifStamp(y))]))

\* a page image without EXIF: downloaded, never verified
Undated(n) == PageImage(n, None)

\* a Commons image dated y whose download failed
Undownloaded(n, y) ==
    _download_candidate(
        CommonsVerified(CommonsImage(<<"File:S", n>>, <<"s", n>>,
            [NoExtmeta EXCEPT !.DateTimeOriginal = Some(CommonsStamp(y))])),
        n, FALSE)

\* the candidate at position n dated y: Commons and EXIF dating alternate
DatedCandidate(n, y) ==
    IF n % 2 = 1 THEN DatedByCommons(n, y) ELSE DatedByExif(n, y)

\* the years of the worked example of the anchor-selection contract
ExampleYears == <<1995, 1998, 2001, 2004, 2007, 2010, 2024>>

\* a manifest of seven downloaded candidates dated to the example years
ExampleManifest ==
    [i \in 1..Len(ExampleYears) |-> DatedCandidate(i, ExampleYears[i])]

NoResult == [status |-> "none", mode |-> "none", anchors |-> <<>>]

AnchorInit(phase) ==
    /\ sel_pc = phase
    /\ sel_manifest = <<>>
    /\ sel_birth = 0
    /\ sel_result = NoResult
    /\ sel_strict = <<>>

DatedPositions == {i \in 1..Len(sel_manifest) : ~IsNone(sel_manifest[i].verified_date)}

\* the year the next dated candidate is a step away from
LastYear ==
    IF DatedPositions = {} THEN BaseYear
    ELSE YearOf(sel_manifest[CHOOSE i \in DatedPositions :
                                 \A j \in DatedPositions : j <= i])

StepsAllowed ==
    IF DatedPositions = {} THEN {0}
    ELSE IF Len(sel_manifest) < MaxFree THEN Deltas ELSE TailDeltas

\* acquisition left one more downloaded, dated candidate in the manifest
AddDated ==
    /\ UNCHANGED outsideAnchors
    /\ sel_pc = "build"
    /\ Len(sel_manifest) < MaxCands
    /\ \E d \in StepsAllowed :
         sel_manifest' = Append(sel_manifest,
                             DatedCandidate(Len(sel_manifest) + 1, LastYear + d))
    /\ UNCHANGED <<sel_pc, sel_birth, sel_result, sel_strict>>

\* acquisition left a candidate select_anchors must pass over
AddIneligible ==
    /\ UNCHANGED outsideAnchors
    /\ sel_pc = "build"
    /\ Len(sel_manifest) < MaxMixed
    /\ \/ sel_manifest' = Append(sel_manifest, Undated(Len(sel_manifest) + 1))
       \/ sel_manifest' = Append(sel_manifest,
              Undownloaded(Len(sel_manifest) + 1, LastYear - 3))
    /\ UNCHANGED <<sel_pc, sel_birth, sel_result, sel_strict>>

\* main.run_step4: select_anchors(manifest, birth_year)
Select ==
    /\ UNCHANGED outsideAnchors
    /\ sel_pc = "build"
    /\ \E b \in SelBirthYears :
         /\ sel_birth' = b
         /\ sel_result' = select_anchors(BuildManifest(sel_manifest), b)
         /\ sel_strict' = StrictLoop(SortByYear(SelectSeq(sel_manifest, Eligible)),
                                   <<>>, None, b)
    /\ sel_pc' = "selected"
    /\ UNCHANGED sel_manifest

AnchorNext ==
    \/ AddDated
    \/ AddIneligible
    \/ Select

(***************************************************************************)
(* main.py: the three commands, run by processes that share the files      *)
(***************************************************************************)
\* ticks of the clock at which a command may still start
MaxClock == 7

Procs == {1, 2}

Commands == {"resolve", "collect", "select"}

\* data/celebrities/queue.json: two names of one slug, the second padded,
\* and a blank entry between them
QueueData ==
    << <<"A", "l", " ", "B">>, <<" ">>, <<" ", "a", "l", "-", "b">> >>

Slugs == {slugify(load_queue(QueueData)[i]) :
             i \in 1..Len(load_queue(QueueData))}

\* what resolve_celebrity_facts builds from the network for name
FactsOf(name) ==
    [name |-> name,
     birth_date |-> <<"1", "9", "7", "4", "-", "1", "1", "-", "1", "1">>]

\* a manifest whose dated candidates share one year
OneYearManifest == <<DatedCandidate(1, 2001), DatedCandidate(2, 2001)>>

\* the candidate lists a collection may end with
CollectedLists == {<<>>, OneYearManifest, ExampleManifest}

IdleRun ==
    [pc |-> "idle", cmd |-> "none", force |-> FALSE, name |-> None,
     facts |-> None, manifest |-> None, anchors |-> <<>>, used |-> EmptyMap,
     selected |-> FALSE, saved |-> FALSE, outcome |-> "none",
     wrote |-> None]

\* the command of process p ends: its locals are gone
Ended(r, how) ==
    [IdleRun EXCEPT !.cmd = r.cmd, !.name = r.name, !.selected = r.selected,
                    !.saved = r.saved, !.outcome = how, !.wrote = r.wrote]

QueueInit(phase) ==
    /\ usedFile = None
    /\ factsFiles = [g \in Slugs |-> None]
    /\ manifestFiles = [g \in Slugs |-> None]
    /\ anchorFiles = [g \in Slugs |-> None]
    /\ run = [p \in Procs |-> [IdleRun EXCEPT !.pc = phase]]
    /\ clock = 0

\* main(): one of the three commands starts with get_next_celebrity()
Start(p) ==
    /\ UNCHANGED outsideQueue
    /\ run[p].pc = "idle"
    /\ clock < MaxClock
    /\ \E cmd \in Commands, f \in BOOLEAN :
         /\ cmd = "select" => ~f
         /\ run' = [run EXCEPT ![p] =
                IF IsNone(get_next_celebrity(QueueData, usedFile))
                    THEN [IdleRun EXCEPT !.cmd = cmd, !.outcome = "returned"]
                    ELSE [IdleRun EXCEPT
                             !.pc = "facts", !.cmd = cmd, !.force = f,
                             !.name = get_next_celebrity(QueueData, usedFile)]]
    /\ clock' = clock + 1
    /\ UNCHANGED <<usedFile, factsFiles, manifestFiles, anchorFiles>>

\* the step of each command after resolve_celebrity_facts returned facts
AfterFacts(r, facts) ==
    CASE r.cmd = "resolve" -> Ended(r, "returned")
      [] r.cmd = "collect" -> [r EXCEPT !.pc = "collect", !.facts = Some(facts)]
      [] r.cmd = "select" ->
            [r EXCEPT !.pc = "read_manifest", !.facts = Some(facts)]

\* resolve_celebrity_facts(name, force): the cached facts, or the network's
ResolveFacts(p) ==
    /\ UNCHANGED outsideQueue
    /\ run[p].pc = "facts"
    /\ IF /\ ~IsNone(factsFiles[slugify(Val(run[p].name))])
          /\ ~(run[p].cmd = "resolve" /\ run[p].force)
          THEN /\ run' = [run EXCEPT ![p] =
                    AfterFacts(run[p],
                               Val(factsFiles[slugify(Val(run[p].name))]))]
               /\ UNCHANGED factsFiles
          ELSE \E found \in BOOLEAN :
                IF found
                   THEN /\ factsFiles' =
                            [factsFiles EXCEPT
                                ![slugify(Val(run[p].name))] =
                                    Some(FactsOf(Val(run[p].name)))]
                        /\ run' = [run EXCEPT ![p] =
                              AfterFacts(run[p], FactsOf(Val(run[p].name)))]
                   ELSE /\ run' = [run EXCEPT ![p] = Ended(run[p], "raised")]
                        /\ UNCHANGED factsFiles
    /\ UNCHANGED <<usedFile, manifestFiles, anchorFiles, clock>>

\* run_step3_collect_images from line 80: the collection of the subject
CollectImages(p) ==
    /\ UNCHANGED outsideQueue
    /\ run[p].pc = "collect"
    /\ extract_birth_year(Val(run[p].facts).birth_date).ok
    /\ IF /\ ~IsNone(manifestFiles[slugify(Val(run[p].facts).name)])
          /\ ~run[p].force
          THEN /\ run' = [run EXCEPT ![p] = Ended(run[p], "returned")]
               /\ UNCHANGED manifestFiles
          ELSE \E dl \in CollectedLists :
                /\ manifestFiles' =
                     [manifestFiles EXCEPT
                        ![slugify(Val(run[p].facts).name)] =
                            Some(model_dump(BuildManifest(dl)))]
                /\ run' = [run EXCEPT ![p] =
                       Ended(run[p],
                             IF RecencyOfDoc(model_dump(BuildManifest(dl)))
                                 THEN "returned" ELSE "raised")]
    /\ UNCHANGED <<usedFile, factsFiles, anchorFiles, clock>>

\* run_step4_select_anchors lines 117-118
ReadManifest(p) ==
    /\ UNCHANGED outsideQueue
    /\ run[p].pc = "read_manifest"
    /\ run' = [run EXCEPT ![p] =
          IF IsNone(manifestFiles[slugify(Val(run[p].facts).name)])
              THEN Ended(run[p], "raised")
              ELSE [run[p] EXCEPT
                      !.pc = "select",
                      !.manifest = Some(model_validate(Val(
                          manifestFiles[slugify(Val(run[p].facts).name)])))]]
    /\ UNCHANGED <<usedFile, factsFiles, manifestFiles, anchorFiles, clock>>

\* the result of lines 120-123 in the run record
Selection(r, res) ==
    IF res.status = "ok"
        THEN [r EXCEPT !.pc = "save", !.anchors = res.anchors,
                       !.selected = TRUE]
        ELSE Ended(r, "raised")

\* run_step4_select_anchors lines 120-123
SelectAnchors(p) ==
    /\ UNCHANGED outsideQueue
    /\ run[p].pc = "select"
    /\ run' = [run EXCEPT ![p] =
          Selection(run[p],
              select_anchors(Val(run[p].manifest),
                  extract_birth_year(Val(run[p].facts).birth_date).val))]
    /\ UNCHANGED <<usedFile, factsFiles, manifestFiles, anchorFiles, clock>>

SaveTimeline_ErrorSwallowed(p) ==
    /\ UNCHANGED outsideQueue
    /\ run[p].pc = "save"
    /\ \E written \in BOOLEAN :
         IF written
            THEN /\ anchorFiles' =
                      [anchorFiles EXCEPT
                          ![slugify(Val(run[p].facts).name)] =
                              Some(run[p].anchors)]
                 /\ run' = [run EXCEPT ![p].pc = "mark_read",
                                       ![p].saved = TRUE]
            ELSE /\ run' = [run EXCEPT ![p].pc = "mark_read"]
                 /\ UNCHANGED anchorFiles
    /\ UNCHANGED <<usedFile, factsFiles, manifestFiles, clock>>

\* line 125: save_anchor_timeline writes the timeline, or write_json raises
SaveTimeline(p) ==
    /\ UNCHANGED outsideQueue
    /\ run[p].pc = "save"
    /\ \E written \in BOOLEAN :
         IF written
            THEN /\ anchorFiles' =
                      [anchorFiles EXCEPT
                          ![slugify(Val(run[p].facts).name)] =
                              Some(run[p].anchors)]
                 /\ run' = [run EXCEPT ![p].pc = "mark_read",
                                       ![p].saved = TRUE]
            ELSE /\ run' = [run EXCEPT ![p] = Ended(run[p], "raised")]
                 /\ UNCHANGED anchorFiles
    /\ UNCHANGED <<usedFile, factsFiles, manifestFiles, clock>>

\* mark_used line 71
MarkRead(p) ==
    /\ UNCHANGED outsideQueue
    /\ run[p].pc = "mark_read"
    /\ run' = [run EXCEPT ![p].pc = "mark_write",
                          ![p].used = load_used(usedFile)]
    /\ UNCHANGED <<usedFile, factsFiles, manifestFiles, anchorFiles, clock>>

\* the entry of name that a call of mark_used at time now writes
EntryOf(name, now) == [name |-> name, processed_at |-> now]

MarkWrite_ReadsAgain(p) ==
    /\ UNCHANGED outsideQueue
    /\ run[p].pc = "mark_write"
    /\ usedFile' = Some(UsedWith(load_used(usedFile),
                                 Val(run[p].facts).name, clock))
    /\ clock' = clock + 1
    /\ run' = [run EXCEPT ![p] =
          Ended([run[p] EXCEPT
                    !.wrote = Some(EntryOf(Val(run[p].facts).name, clock))],
                "returned")]
    /\ UNCHANGED <<factsFiles, manifestFiles, anchorFiles>>

\* mark_used lines 73-78; wrote keeps the entry as history
MarkWrite(p) ==
    /\ UNCHANGED outsideQueue
    /\ run[p].pc = "mark_write"
    /\ usedFile' = Some(UsedWith(run[p].used, Val(run[p].facts).name, clock))
    /\ clock' = clock + 1
    /\ run' = [run EXCEPT ![p] =
          Ended([run[p] EXCEPT
                    !.wrote = Some(EntryOf(Val(run[p].facts).name, clock))],
                "returned")]
    /\ UNCHANGED <<factsFiles, manifestFiles, anchorFiles>>

QueueNext ==
    \/ \E p \in Procs : Start(p)
    \/ \E p \in Procs : ResolveFacts(p)
    \/ \E p \in Procs : CollectImages(p)
    \/ \E p \in Procs : ReadManifest(p)
    \/ \E p \in Procs : SelectAnchors(p)
    \/ \E p \in Procs : SaveTimeline(p)
    \/ \E p \in Procs : MarkRead(p)
    \/ \E p \in Procs : MarkWrite(p)

(***************************************************************************)
(* images/downloader.py: download_file                                     *)
(***************************************************************************)
DownloaderInit(phase) ==
    /\ dl_pc = phase
    /\ dl_retries = 0
    /\ dl_attempt = 0
    /\ dl_sent = <<>>
    /\ dl_pos = 0
    /\ dl_tmp = None
    /\ dl_final = None
    /\ dl_last_err = None
    /\ dl_initial = None
    /\ dl_tried = 0

\* the default of the retries argument
retries == 3

\* chunks in one response body
MaxChunks == 2

\* what iter_content yields: a chunk with bytes in it, or an empty one
Chunks == {"", "x", "y"}

Bodies == UNION {[1..n -> Chunks] : n \in 0..MaxChunks}

IsData(chunk) == chunk # ""

\* the bytes of a body: "if chunk: f.write(chunk)"
BytesOf(body) == SelectSeq(body, IsData)

\* the file a former run left at out_path, and a stale ".part" file
OldFile == Some(<<"o">>)
StaleTmp == Some(<<"p">>)

\* download_file is called: lines 16-21
DownloadCalled ==
    /\ dl_pc = "loop"
    /\ dl_retries \in 0..retries
    /\ dl_attempt = 0
    /\ dl_sent = <<>>
    /\ dl_pos = 0
    /\ dl_tmp \in {None, StaleTmp}
    /\ dl_final \in {None, OldFile}
    /\ dl_last_err = None
    /\ dl_initial = dl_final
    /\ dl_tried = 0

\* line 22, and lines 39-41 when the range is exhausted
NextAttempt ==
    /\ UNCHANGED outsideDownloader
    /\ dl_pc = "loop"
    /\ IF dl_attempt < dl_retries
          THEN /\ dl_attempt' = dl_attempt + 1
               /\ dl_tried' = dl_tried + 1
               /\ dl_pc' = "get"
          ELSE /\ dl_pc' = "raised"
               /\ UNCHANGED <<dl_attempt, dl_tried>>
    /\ UNCHANGED <<dl_retries, dl_sent, dl_pos, dl_tmp, dl_final, dl_last_err,
                   dl_initial>>

\* lines 24-25: a response with a body, or an exception
Get ==
    /\ UNCHANGED outsideDownloader
    /\ dl_pc = "get"
    /\ \/ \E body \in Bodies :
            /\ dl_sent' = body
            /\ dl_pos' = 0
            /\ dl_pc' = "open"
       \/ /\ dl_pc' = "except"
          /\ UNCHANGED <<dl_sent, dl_pos>>
    /\ UNCHANGED <<dl_retries, dl_attempt, dl_tmp, dl_final, dl_last_err,
                   dl_initial, dl_tried>>

\* lines 27-28: open(tmp, "wb") truncates the ".part" file, or raises
OpenTmp ==
    /\ UNCHANGED outsideDownloader
    /\ dl_pc = "open"
    /\ \/ /\ dl_tmp' = Some(<<>>)
          /\ dl_pc' = "write"
       \/ /\ dl_pc' = "except"
          /\ UNCHANGED dl_tmp
    /\ UNCHANGED <<dl_retries, dl_attempt, dl_sent, dl_pos, dl_final,
                   dl_last_err, dl_initial, dl_tried>>

WriteChunk_InPlace ==
    /\ UNCHANGED outsideDownloader
    /\ dl_pc = "write"
    /\ IF dl_pos < Len(dl_sent)
          THEN \/ /\ dl_pos' = dl_pos + 1
                  /\ dl_final' =
                        IF IsData(dl_sent[dl_pos + 1])
                            THEN Some((IF IsNone(dl_final) THEN <<>>
                                       ELSE Val(dl_final))
                                      \o <<dl_sent[dl_pos + 1]>>)
                            ELSE dl_final
                  /\ UNCHANGED <<dl_pc, dl_tmp>>
               \/ /\ dl_pc' = "except"
                  /\ UNCHANGED <<dl_pos, dl_tmp, dl_final>>
          ELSE /\ dl_pc' = "replace"
               /\ UNCHANGED <<dl_pos, dl_tmp, dl_final>>
    /\ UNCHANGED <<dl_retries, dl_attempt, dl_sent, dl_last_err, dl_initial,
                   dl_tried>>

\* lines 29-31: one turn of the loop over iter_content, which yields the
\* next chunk or raises; after the last chunk the with block closes the file
WriteChunk ==
    /\ UNCHANGED outsideDownloader
    /\ dl_pc = "write"
    /\ IF dl_pos < Len(dl_sent)
          THEN \/ /\ dl_pos' = dl_pos + 1
                  /\ dl_tmp' =
                        IF IsData(dl_sent[dl_pos + 1])
                            THEN Some(Val(dl_tmp) \o <<dl_sent[dl_pos + 1]>>)
                            ELSE dl_tmp
                  /\ UNCHANGED dl_pc
               \/ /\ dl_pc' = "except"
                  /\ UNCHANGED <<dl_pos, dl_tmp>>
          ELSE /\ dl_pc' = "replace"
               /\ UNCHANGED <<dl_pos, dl_tmp>>
    /\ UNCHANGED <<dl_retries, dl_attempt, dl_sent, dl_final, dl_last_err,
                   dl_initial, dl_tried>>

\* lines 33-34: os.replace(tmp, out_path) and return, or os.replace raises
ReplaceTmp ==
    /\ UNCHANGED outsideDownloader
    /\ dl_pc = "replace"
    /\ \/ /\ dl_final' = dl_tmp
          /\ dl_tmp' = None
          /\ dl_pc' = "returned"
       \/ /\ dl_pc' = "except"
          /\ UNCHANGED <<dl_tmp, dl_final>>
    /\ UNCHANGED <<dl_retries, dl_attempt, dl_sent, dl_pos, dl_last_err,
                   dl_initial, dl_tried>>

\* lines 35-37: last_err = e, sleep, next turn
Backoff ==
    /\ UNCHANGED outsideDownloader
    /\ dl_pc = "except"
    /\ dl_last_err' = Some(dl_attempt)
    /\ dl_pc' = "loop"
    /\ UNCHANGED <<dl_retries, dl_attempt, dl_sent, dl_pos, dl_tmp, dl_final,
                   dl_initial, dl_tried>>

DownloaderNext ==
    \/ NextAttempt
    \/ Get
    \/ OpenTmp
    \/ WriteChunk
    \/ ReplaceTmp
    \/ Backoff

vars == <<collectorVars, anchorVars, queueVars, downloaderVars>>

\* acquisition, with anchor selection not started
Init ==
    /\ CollectorInit
    /\ AnchorInit("off")
    /\ QueueInit("off")
    /\ DownloaderInit("off")

Next == CollectorNext

Spec == Init /\ [][Next]_vars

\* anchor selection, with acquisition not running
CollectorParked ==
    /\ CollectorInit
    /\ IsNone(manifestFile)
    /\ birth_year = TargetYearEnd - 10
    /\ ~serpapi_key

InitAnchors ==
    /\ CollectorParked
    /\ sel_pc = "build"
    /\ sel_manifest \in {<<>>, ExampleManifest}
    /\ sel_birth = 0
    /\ sel_result = NoResult
    /\ sel_strict = <<>>
    /\ QueueInit("off")
    /\ DownloaderInit("off")

NextAnchors == AnchorNext

SpecAnchors == InitAnchors /\ [][NextAnchors]_vars

\* the commands of main.py, with acquisition and selection seen from outside
InitQueue ==
    /\ CollectorParked
    /\ AnchorInit("off")
    /\ QueueInit("idle")
    /\ DownloaderInit("off")

NextQueue == QueueNext

SpecQueue == InitQueue /\ [][NextQueue]_vars

\* the download stage on a list about as long as the download budget
InitBudget ==
    /\ BudgetInit
    /\ AnchorInit("off")
    /\ QueueInit("off")
    /\ DownloaderInit("off")

NextBudget == BudgetNext

SpecBudget == InitBudget /\ [][NextBudget]_vars

\* one call of download_file
InitDownload ==
    /\ CollectorParked
    /\ AnchorInit("off")
    /\ QueueInit("off")
    /\ DownloadCalled

NextDownload == DownloaderNext

SpecDownload == InitDownload /\ [][NextDownload]_vars

(***************************************************************************)
(* Properties of the acquisition step                                      *)
(***************************************************************************)
\* the recency requirement of the specification: some verified candidate is
\* dated target_year_end - 1 or later
RecencyOK(cands) ==
    \E i \in 1..Len(cands) :
        /\ cands[i].verified
        /\ ~IsNone(cands[i].verified_date)
        /\ Val(cands[i].verified_date).year >= TargetYearEnd - 1

IsPrefix(s, t) == Len(s) <= Len(t) /\ SubSeq(t, 1, Len(s)) = s

FreshRunDone == pc = "done" /\ ~cached

\* C1: a fresh run ends in a failure exactly when no verified candidate of
\* the manifest is dated target_year_end - 1 or later, and returns the
\* manifest exactly when one is.
C1_RecencyHardRequirement ==
    FreshRunDone => (outcome = "raised" <=> ~RecencyOK(downloaded))

C3_VerificationNeverOverwritten ==
    [][pc = "download" =>
          \A i \in 1..Len(candidates) :
              ~IsNone(candidates[i].verified_date) =>
                  candidates'[i].verified_date = candidates[i].verified_date]_vars

NoDuplicates(cs) ==
    \A i, j \in 1..Len(cs) :
        i # j => /\ cs[i].image_url # cs[j].image_url
                 /\ cs[i].title # cs[j].title

\* C4: no two candidates of the aggregated list share an image_url and no
\* two share a title, at every point of the run and in what is downloaded.
C4_NoDuplicateUrlOrTitle ==
    NoDuplicates(candidates) /\ NoDuplicates(downloaded)

\* aggregation is over and the last adapter offered a candidate that
\* push_candidate dropped, after one that it kept
C4_Witness ==
    /\ pc = "download"
    /\ downloaded = <<>>
    /\ Len(candidates) >= 3
    /\ \E k \in 1..Len(offered) :
          /\ \A i \in 1..Len(candidates) : candidates[i] # offered[k]
          /\ \E i \in 1..Len(candidates) :
                \/ candidates[i].image_url = offered[k].image_url
                \/ candidates[i].title = offered[k].title
    /\ \E k \in 1..Len(offered) :
          \E i \in 1..Len(candidates) : candidates[i] = offered[k]

\* C5: a call made with force_refresh false while the manifest file exists
\* returns the manifest of the file, leaves the file as it is, calls no
\* adapter and downloads nothing.
C5_CacheIdempotence ==
    [][(calls' = calls + 1 /\ ~force' /\ ~IsNone(manifestFile)) =>
          /\ manifestFile' = manifestFile
          /\ writes' = writes
          /\ ret' = manifestFile
          /\ outcome' = "returned"
          /\ pc' = "done"
          /\ invoked' = {}
          /\ fetches' = <<>>]_vars

\* a second cached call in a row, on a manifest a fresh run of this model
\* wrote, with candidates and none of them recent
C5_Witness ==
    /\ pc = "done"
    /\ cached
    /\ calls = 3
    /\ writes = 1
    /\ ret = manifestFile
    /\ Len(Val(ret).candidates) >= 2
    /\ ~RecencyOK(Val(ret).candidates)

\* the adapter calls a fresh run makes whatever the earlier ones did
RequiredCalls ==
    {<<"wikimedia", 0>>, <<"wikipedia_page", 0>>, <<"imdb", 0>>}
        \cup {<<"bing", y>> : y \in start_year..current_year}
        \cup (IF serpapi_key
                  THEN {<<"serpapi", y>> :
                           y \in {z \in start_year..current_year :
                                     (z - start_year) % 3 = 0}}
                  ELSE {})

AdapterPcs == {"wikimedia", "wikimedia_year", "wikipedia_page", "imdb",
               "bing", "serpapi"}

\* a step of an adapter neither ends the run nor drops a candidate
AdapterStepIsolated ==
    pc \in AdapterPcs =>
        /\ pc' \in AdapterPcs \cup {"download"}
        /\ outcome' = outcome
        /\ IsPrefix(candidates, candidates')

AllRequiredCallsMade ==
    FreshRunDone /\ outcome = "returned" => RequiredCalls \subseteq invoked

\* C6: a failure of an adapter unit (Wikimedia as a whole, the Wikipedia
\* page, IMDb, Bing per year, SerpAPI per year) does not end the run, keeps
\* the candidates pushed so far, and the later adapters are still called.
C6_AdapterFailureIsolation ==
    [][AdapterStepIsolated /\ AllRequiredCallsMade']_vars

\* a run returned with candidates although the Commons unit, one Bing year
\* and a third unit failed
C6_Witness ==
    /\ FreshRunDone
    /\ outcome = "returned"
    /\ Cardinality(failed) >= 3
    /\ \E y \in start_year..current_year : <<"wikimedia", y>> \in failed
    /\ \E y \in start_year..(current_year - 1) : <<"bing", y>> \in failed
    /\ Len(downloaded) >= 2
    /\ RequiredCalls \subseteq invoked

Consistent(c) == c.verified <=> ~IsNone(c.verified_date)

\* C7: for every candidate object, verified is true exactly when
\* verified_date is set.
C7_VerifiedIffDated ==
    /\ \A i \in 1..Len(candidates) : Consistent(candidates[i])
    /\ \A i \in 1..Len(downloaded) : Consistent(downloaded[i])
    /\ ~IsNone(cand) => Consistent(Val(cand))

\* C8: no candidate has an empty image_url.
C8_ImageUrlNeverEmpty ==
    /\ \A i \in 1..Len(candidates) : candidates[i].image_url # EmptyStr
    /\ ~IsNone(cand) => Val(cand).image_url # EmptyStr

(***************************************************************************)
(* Properties of anchor selection                                          *)
(***************************************************************************)
Selected == sel_pc = "selected"

AnchorYears == [i \in 1..Len(sel_result.anchors) |-> sel_result.anchors[i].year]

\* C9: the anchors of a strict-mode result are at most 8 and every adjacent
\* pair (a, b) has b.year - a.year >= 3.
C9_StrictAnchorSpacing ==
    (Selected /\ sel_result.mode = "strict") =>
        /\ Len(AnchorYears) <= 8
        /\ \A i \in 1..(Len(AnchorYears) - 1) :
              AnchorYears[i + 1] - AnchorYears[i] >= 3

\* a strict result of 8 anchors that passed over a candidate less than 3
\* years after an anchor
C9_Witness ==
    /\ Selected
    /\ sel_result.mode = "strict"
    /\ Len(AnchorYears) = 8
    /\ \E i \in DatedPositions :
          \E k \in 1..8 :
              /\ YearOf(sel_manifest[i]) > AnchorYears[k]
              /\ YearOf(sel_manifest[i]) < AnchorYears[k] + 3

\* C10: whenever select_anchors succeeds, by the strict selection or by the
\* relaxed fallback, the anchors are strictly increasing in year.
C10_AnchorsStrictlyIncreasing ==
    (Selected /\ sel_result.status = "ok") =>
        \A i \in 1..(Len(AnchorYears) - 1) : AnchorYears[i] < AnchorYears[i + 1]

\* a relaxed result of three anchors or more on a manifest that is not in
\* year order and holds one year twice
C10_Witness ==
    /\ Selected
    /\ sel_result.status = "ok"
    /\ sel_result.mode = "relaxed"
    /\ Len(AnchorYears) >= 3
    /\ \E i, j \in DatedPositions :
          i < j /\ YearOf(sel_manifest[i]) > YearOf(sel_manifest[j])
    /\ \E i, j \in DatedPositions :
          i < j /\ YearOf(sel_manifest[i]) = YearOf(sel_manifest[j])

\* the eligible candidates of the manifest handed to select_anchors
EligiblePositions == {i \in 1..Len(sel_manifest) : Eligible(sel_manifest[i])}

EligibleYears == {YearOf(sel_manifest[i]) : i \in EligiblePositions}

\* what the strict selection alone yields on the manifest
StrictAnchors == sel_strict

Distance(a, b) == IF a >= b THEN a - b ELSE b - a

Spaced(T, step) == \A a, b \in T : a # b => Distance(a, b) >= step

Least(S) == CHOOSE y \in S : \A z \in S : y <= z

\* the largest number of years of S that are pairwise step or more apart:
\* the better of the sets with the least year of S and the sets without it
RECURSIVE MaxSpaced(_, _)
MaxSpaced(S, step) ==
    IF S = {} THEN 0
    ELSE Max2(1 + MaxSpaced({y \in S : y >= Least(S) + step}, step),
              MaxSpaced(S \ {Least(S)}, step))

\* max(1, span // 8) of the eligible years
EligibleStep ==
    LET lo == CHOOSE y \in EligibleYears : \A z \in EligibleYears : y <= z
        hi == CHOOSE y \in EligibleYears : \A z \in EligibleYears : z <= y
    IN  IF (hi - lo) \div 8 >= 1 THEN (hi - lo) \div 8 ELSE 1

FourStrictSixYears ==
    /\ Selected
    /\ Len(StrictAnchors) = 4
    /\ Cardinality(EligibleYears) >= 6

\* C11: when the strict selection yields fewer than 5 anchors the relaxed
\* result is what select_anchors returns; with exactly 4 strict anchors and
\* 6 or more distinct eligible years it returns as many anchors as there are
\* years pairwise step apart, capped at 8 (so 5 or more when there are).
C11_FallbackTrigger ==
    /\ (Selected /\ EligiblePositions # {}) =>
          (sel_result.mode = "relaxed" <=> Len(StrictAnchors) < 5)
    /\ FourStrictSixYears =>
          LET step == EligibleStep
              years == EligibleYears
          IN  /\ sel_result.status = "ok"
              /\ sel_result.mode = "relaxed"
              /\ Spaced({AnchorYears[i] : i \in 1..Len(AnchorYears)}, step)
              /\ Len(AnchorYears) = Min2(8, MaxSpaced(years, step))

\* 4 strict anchors, 6 or more eligible years, and the fallback returned 5
\* anchors or more
C11_Witness ==
    /\ FourStrictSixYears
    /\ sel_result.mode = "relaxed"
    /\ Len(AnchorYears) >= 5

\* 4 strict anchors, 6 or more eligible years, and no 5 years step apart:
\* the fallback returned fewer anchors than the strict selection had
C11_WitnessFewer ==
    /\ FourStrictSixYears
    /\ sel_result.mode = "relaxed"
    /\ Len(AnchorYears) < 4

\* the candidates of the manifest that are verified, dated and downloaded
VerifiedDatedLocal ==
    {i \in 1..Len(sel_manifest) :
        /\ sel_manifest[i].verified
        /\ sel_manifest[i].verified_date # None
        /\ sel_manifest[i].local_path # None}

\* C12: select_anchors ends with the "no eligible images" error exactly
\* when no candidate of the manifest is verified, dated and downloaded, and
\* then returns no anchor.
C12_NoEligibleError ==
    Selected =>
        /\ sel_result.status = "no_eligible" <=> VerifiedDatedLocal = {}
        /\ sel_result.status = "no_eligible" => sel_result.anchors = <<>>

\* the error on a manifest whose only candidate is verified and dated but
\* was never downloaded
C12_Witness ==
    /\ Selected
    /\ sel_result.status = "no_eligible"
    /\ \E i \in 1..Len(sel_manifest) :
          /\ sel_manifest[i].verified
          /\ sel_manifest[i].verified_date # None
          /\ sel_manifest[i].local_path = None

\* C13: when the strict selection yields fewer than 5 anchors,
\* select_anchors ends with the "insufficient year diversity" error if the
\* eligible candidates cover fewer than 2 years and returns anchors if they
\* cover 2 or more; the error has no other cause.
C13_YearDiversityError ==
    (Selected /\ VerifiedDatedLocal # {}) =>
        /\ sel_result.status = "no_diversity" <=>
              (Len(StrictAnchors) < 5 /\ Cardinality(EligibleYears) < 2)
        /\ (Len(StrictAnchors) < 5 /\ Cardinality(EligibleYears) >= 2) =>
              (sel_result.status = "ok" /\ Len(sel_result.anchors) >= 2)

\* the error on a manifest of three eligible candidates of one year
C13_Witness ==
    /\ Selected
    /\ sel_result.status = "no_diversity"
    /\ Cardinality(VerifiedDatedLocal) >= 3
    /\ Cardinality(EligibleYears) = 1

ManifestYear(i) == Val(sel_manifest[i].verified_date).year

\* the manifest positions a list of anchors was taken from (a local_path
\* carries the index its candidate was downloaded under)
PositionsOf(anchors) == {anchors[k].image_path.idx : k \in 1..Len(anchors)}

\* the positions the strict selection took its anchors from
StrictAccepted == PositionsOf(StrictAnchors)

\* position i comes before position j in stable ascending-year order
Before(i, j) ==
    \/ ManifestYear(i) < ManifestYear(j)
    \/ ManifestYear(i) = ManifestYear(j) /\ i < j

\* the greedy rule for position i, acc being the accepted positions: fewer
\* than 8 are accepted before i, and none of them less than 3 years before
GreedyAccepts(i, acc) ==
    /\ Cardinality({j \in acc : Before(j, i)}) < 8
    /\ \A j \in acc : Before(j, i) => ManifestYear(i) - ManifestYear(j) >= 3

\* strict, a list of anchors, is what the greedy walk of the eligible
\* candidates yields, acc being the positions it was taken from
IsGreedyWalk(strict, acc) ==
    /\ \A i \in VerifiedDatedLocal : i \in acc <=> GreedyAccepts(i, acc)
    /\ acc \subseteq VerifiedDatedLocal
    /\ Cardinality(acc) = Len(strict)
    /\ \A k \in 1..(Len(strict) - 1) :
          Before(strict[k].image_path.idx, strict[k + 1].image_path.idx)
    /\ \A i \in acc :
          \A j \in VerifiedDatedLocal :
              ManifestYear(j) = ManifestYear(i) => i <= j
    /\ sel_result.mode = "strict" => sel_result.anchors = strict

\* the manifest is the worked example and the birth year 1974
IsExample ==
    /\ Selected
    /\ sel_birth = 1974
    /\ Len(sel_manifest) = Len(ExampleYears)
    /\ VerifiedDatedLocal = 1..Len(sel_manifest)
    /\ [i \in 1..Len(sel_manifest) |-> ManifestYear(i)] = ExampleYears

\* C14: the strict selection accepts an eligible candidate exactly when,
\* in stable ascending-year order, fewer than 8 are accepted before it and
\* the last accepted is 3 years or more before it; of candidates sharing a
\* year only the first of the manifest can be accepted; when the eligible
\* years are 5 to 8 and pairwise 3 apart every year gives one anchor; the
\* example years give 7 anchors of ages 21, 24, 27, 30, 33, 36, 50.
C14_StrictGreedy ==
    /\ (Selected /\ VerifiedDatedLocal # {}) =>
          /\ LET strict == StrictAnchors
                 acc == PositionsOf(strict)
             IN  IsGreedyWalk(strict, acc)
          /\ (Spaced(EligibleYears, 3) /\ Cardinality(EligibleYears) \in 5..8) =>
                /\ sel_result.mode = "strict"
                /\ {AnchorYears[k] : k \in 1..Len(AnchorYears)} = EligibleYears
                /\ Len(AnchorYears) = Cardinality(EligibleYears)
    /\ IsExample =>
          /\ sel_result.mode = "strict"
          /\ AnchorYears = ExampleYears
          /\ [k \in 1..Len(sel_result.anchors) |-> sel_result.anchors[k].age]
                = <<21, 24, 27, 30, 33, 36, 50>>

\* the worked example was selected from
C14_ExampleReached == IsExample /\ Len(sel_result.anchors) = 7

\* a strict result on a manifest that is not in year order, where the first
\* of two candidates of one year became an anchor and a candidate less than
\* 3 years after an anchor did not
C14_Witness ==
    /\ Selected
    /\ sel_result.mode = "strict"
    /\ \E i, j \in VerifiedDatedLocal :
          i < j /\ ManifestYear(i) = ManifestYear(j) /\ i \in StrictAccepted
    /\ \E i, j \in VerifiedDatedLocal :
          i < j /\ ManifestYear(i) > ManifestYear(j)
    /\ \E i \in VerifiedDatedLocal \ StrictAccepted :
          \E j \in StrictAccepted :
              ManifestYear(i) > ManifestYear(j) /\ ManifestYear(i) < ManifestYear(j) + 3

\* anchor a is the projection of the manifest candidate at position i
ProjectionOf(a, i) ==
    /\ a.year = Val(sel_manifest[i].verified_date).year
    /\ a.image_path = Val(sel_manifest[i].local_path)
    /\ a.source = sel_manifest[i].source
    /\ a.age = a.year - sel_birth
    /\ a.verified = TRUE

\* C15: every anchor select_anchors returns, strict or relaxed, is the
\* projection of a candidate of the manifest that is verified, dated and
\* downloaded: its year, its local_path, its source, age = year -
\* birth_year and verified = TRUE.
C15_AnchorProjection ==
    Selected =>
        \A k \in 1..Len(sel_result.anchors) :
            \E i \in VerifiedDatedLocal : ProjectionOf(sel_result.anchors[k], i)

\* a relaxed result with anchors of both sources, on a manifest that also
\* holds a dated candidate that was never downloaded, dated before every
\* anchor
C15_Witness ==
    /\ Selected
    /\ sel_result.status = "ok"
    /\ sel_result.mode = "relaxed"
    /\ \E k \in 1..Len(sel_result.anchors) :
          sel_result.anchors[k].source = "wikimedia"
    /\ \E k \in 1..Len(sel_result.anchors) :
          sel_result.anchors[k].source = "wikipedia_page"
    /\ \E i \in 1..Len(sel_manifest) :
          /\ sel_manifest[i].verified_date # None
          /\ sel_manifest[i].local_path = None
          /\ \A k \in 1..Len(AnchorYears) : ManifestYear(i) < AnchorYears[k]

(***************************************************************************)
(* Properties of the manifest and of the download loop                     *)
(***************************************************************************)
VerifiedIn(cs) == {i \in 1..Len(cs) : cs[i].verified}

\* verified_years and verified_count of a manifest are what its candidates
\* give
DerivedFieldsOK(m) ==
    /\ \A k \in 1..(Len(m.verified_years) - 1) :
          m.verified_years[k] < m.verified_years[k + 1]
    /\ {m.verified_years[k] : k \in 1..Len(m.verified_years)}
          = {Val(m.candidates[i].verified_date).year : i \in VerifiedIn(m.candidates)}
    /\ m.verified_count = Cardinality(VerifiedIn(m.candidates))

\* C16: in every manifest a fresh run writes, verified_years is the
\* ascending duplicate-free list of the years of the verified candidates of
\* the manifest and verified_count is the number of verified candidates.
C16_ManifestDerivedFields ==
    /\ ~IsNone(manifestFile) => DerivedFieldsOK(Val(manifestFile))
    /\ ~IsNone(ret) => DerivedFieldsOK(Val(ret))

\* a fresh run wrote a manifest with an unverified candidate, two verified
\* candidates of one year and two verified candidates out of year order
C16_Witness ==
    /\ writes = 1
    /\ pc = "done"
    /\ ~cached
    /\ ret = manifestFile
    /\ \E i \in 1..Len(Val(ret).candidates) : ~Val(ret).candidates[i].verified
    /\ \E i, j \in VerifiedIn(Val(ret).candidates) :
          /\ i < j
          /\ Val(Val(ret).candidates[i].verified_date).year
                 > Val(Val(ret).candidates[j].verified_date).year
    /\ \E i, j \in VerifiedIn(Val(ret).candidates) :
          /\ i < j
          /\ Val(Val(ret).candidates[i].verified_date).year
                 = Val(Val(ret).candidates[j].verified_date).year

\* a turn of the download loop took the candidate before to the candidate
\* after: either it has a path and no error, or an error, no path and the
\* verification it had before, which is not by EXIF
DownloadTurnOK(before, after) ==
    /\ after.local_path = None <=> after.meta.download_error # None
    /\ after.local_path = None =>
          /\ after.verified = before.verified
          /\ after.verified_date = before.verified_date
          /\ after.verified_date # None =>
                Val(after.verified_date).method[1] = "commons"
    /\ after.source = before.source
    /\ after.title = before.title
    /\ after.image_url = before.image_url

\* the manifest of a returned fresh run holds every candidate, each
\* downloaded in its turn
AllCandidatesInManifest ==
    (FreshRunDone /\ outcome = "returned") =>
        /\ Len(downloaded) = Min2(Len(candidates), 140)
        /\ fetches = [i \in 1..Len(downloaded) |-> i]
        /\ Val(manifestFile).candidates = downloaded
        /\ \A i \in 1..Len(downloaded) : downloaded[i] = candidates[i]

\* C17: when the download of a candidate fails the error is recorded in
\* meta["download_error"], local_path stays None, the candidate gets no EXIF
\* date, the loop goes on with the next candidate and the candidate is in
\* the manifest.
C17_DownloadFailureDegrades ==
    [][/\ (pc = "download" /\ Len(downloaded') = Len(downloaded) + 1) =>
             /\ DownloadTurnOK(candidates[Len(downloaded')],
                               downloaded'[Len(downloaded')])
             /\ pc' = "download"
             /\ outcome' = outcome
       /\ AllCandidatesInManifest']_vars

\* a returned fresh run whose manifest holds a candidate whose download
\* failed and that kept its Commons date, before a candidate that was
\* downloaded and dated by EXIF
C17_Witness ==
    /\ FreshRunDone
    /\ outcome = "returned"
    /\ \E i, j \in 1..Len(Val(manifestFile).candidates) :
          /\ i < j
          /\ Val(manifestFile).candidates[i].meta.download_error # None
          /\ Val(manifestFile).candidates[i].local_path = None
          /\ Val(manifestFile).candidates[i].verified_date # None
          /\ Val(manifestFile).candidates[j].local_path # None
          /\ Val(manifestFile).candidates[j].verified_date # None
          /\ Val(Val(manifestFile).candidates[j].verified_date).method[1] = "exif"

\* no index was handed to _download_candidate twice, and a returned fresh
\* run handed it the index of every candidate of its manifest
EachDownloadedOnce ==
    /\ \A i, j \in 1..Len(fetches) : i # j => fetches[i] # fetches[j]
    /\ (FreshRunDone /\ outcome = "returned") =>
          {fetches[i] : i \in 1..Len(fetches)} = 1..Len(Val(ret).candidates)

\* within a run a local_path that is set stays what it is
LocalPathKept ==
    calls' = calls =>
        \A i \in 1..Len(candidates) :
            candidates[i].local_path # None =>
                /\ i <= Len(candidates')
                /\ candidates'[i].local_path = candidates[i].local_path

\* C18: in one fresh run the download is attempted exactly once for each
\* candidate of the manifest, and a candidate's local_path is assigned at
\* most once.
C18_DownloadOncePerCandidate ==
    [][LocalPathKept /\ EachDownloadedOnce']_vars

\* a returned fresh run of three candidates or more, some downloaded and
\* some not
C18_Witness ==
    /\ FreshRunDone
    /\ outcome = "returned"
    /\ Len(fetches) >= 3
    /\ \E i \in 1..Len(downloaded) : downloaded[i].local_path # None
    /\ \E i \in 1..Len(downloaded) : downloaded[i].local_path = None
    /\ downloaded[1].local_path # None

(***************************************************************************)
(* Properties of the queue of subjects                                     *)
(***************************************************************************)
\* the process that takes the step
Acts(p) == run'[p] # run[p]

\* the used file changes only in the write of mark_used, made by a process
\* running the anchor-selection command whose select_anchors returned and
\* whose timeline is on disk, and the change is the entry of its subject
MarkedAfterFinalStep ==
    usedFile' # usedFile =>
        \E p \in Procs :
            /\ Acts(p)
            /\ run[p].pc = "mark_write"
            /\ run[p].cmd = "select"
            /\ run[p].selected
            /\ run[p].saved
            /\ anchorFiles[slugify(Val(run[p].facts).name)] =
                   Some(run[p].anchors)
            /\ run[p].anchors # <<>>
            /\ usedFile' = Some(UsedWith(run[p].used,
                                         Val(run[p].facts).name, clock))

\* a step in which a command raises, and every step of the resolve and
\* collect commands, leaves the used file as it is
OtherStepsKeepUsed ==
    \A p \in Procs :
        (Acts(p) /\ (run'[p].outcome = "raised"
                        \/ run'[p].cmd \in {"resolve", "collect"})) =>
            usedFile' = usedFile

\* C19: mark_used runs only in the anchor-selection command, after
\* select_anchors returned and the timeline was written; a raising
\* select_anchors or save, and the resolve and collect commands, leave the
\* used file unchanged.
C19_MarkedOnlyAfterFinalStep ==
    [][MarkedAfterFinalStep /\ OtherStepsKeepUsed]_vars

\* one subject is marked by a finished anchor selection while the other
\* process has had its anchor selection raise after select_anchors returned
\* (the save failed), and the raised one's subject is the next to process
C19_Witness ==
    /\ ~IsNone(usedFile)
    /\ \E p, q \in Procs :
         /\ p # q
         /\ run[p].cmd = "select" /\ run[p].outcome = "returned"
         /\ run[p].saved
         /\ Val(run[p].name) \in DOMAIN Val(usedFile)
         /\ run[q].cmd = "select" /\ run[q].outcome = "raised"
         /\ run[q].selected /\ ~run[q].saved
         /\ ~IsNone(run[q].name)
         /\ Val(run[q].name) \notin DOMAIN Val(usedFile)

(***************************************************************************)
(* Properties of download_file                                             *)
(***************************************************************************)
\* the file at out_path is the one found there, or the whole body of the
\* attempt after which the call returned
FinalUntouchedOrComplete ==
    \/ dl_final = dl_initial
    \/ dl_pc = "returned" /\ dl_final = Some(BytesOf(dl_sent))

\* at most retries attempts; a return follows an attempt all of whose
\* predecessors raised; a raise follows retries attempts that all raised
AttemptsOK ==
    /\ dl_tried = dl_attempt
    /\ dl_tried <= dl_retries
    /\ dl_pc = "returned" =>
          /\ dl_tried >= 1
          /\ dl_last_err = (IF dl_tried = 1 THEN None ELSE Some(dl_tried - 1))
          /\ dl_final = Some(BytesOf(dl_sent))
          /\ IsNone(dl_tmp)
    /\ dl_pc = "raised" =>
          /\ dl_tried = dl_retries
          /\ dl_retries > 0 => dl_last_err = Some(dl_retries)
          /\ dl_final = dl_initial

\* out_path changes in the replace alone, to the fully written ".part"
\* file; an attempt starts only after the one before it raised; nothing
\* happens after the return or the raise
DownloadStepOK ==
    /\ dl_final' # dl_final =>
          /\ dl_pc = "replace"
          /\ dl_pos = Len(dl_sent)
          /\ dl_tmp = Some(BytesOf(dl_sent))
          /\ dl_final' = dl_tmp
          /\ dl_pc' = "returned"
    /\ dl_tried' # dl_tried =>
          /\ dl_tried' = dl_tried + 1
          /\ dl_tried >= 1 => dl_last_err = Some(dl_tried)
    /\ dl_pc \in {"returned", "raised"} => UNCHANGED downloaderVars

\* C20: download_file writes to the ".part" path only and moves it to
\* out_path by one replace after the body is fully written, so out_path is
\* always untouched or complete; it makes at most retries attempts, returns
\* at the first that succeeds and raises only after all of them failed.
C20_DownloaderAtomicityAndRetry ==
    [][DownloadStepOK /\ FinalUntouchedOrComplete' /\ AttemptsOK']_vars

\* a return at the second attempt or later, over an old file, of a body
\* with an empty chunk in it
C20_Witness ==
    /\ dl_pc = "returned"
    /\ dl_tried >= 2
    /\ dl_initial = OldFile
    /\ dl_final # dl_initial
    /\ Len(Val(dl_final)) >= 1
    /\ Len(dl_sent) > Len(Val(dl_final))

\* a half-written ".part" file lies beside the untouched old file after the
\* last attempt raised
C20_WitnessRaised ==
    /\ dl_pc = "raised"
    /\ dl_retries = retries
    /\ dl_final = OldFile
    /\ ~IsNone(dl_tmp)
    /\ Val(dl_tmp) # BytesOf(dl_sent)

(***************************************************************************)
(* Properties of the used file under concurrent runs                       *)
(***************************************************************************)
\* entry e is in the used map
Holds(used, e) ==
    e.name \in DOMAIN used /\ used[e.name].processed_at = e.processed_at

\* the write of mark_used by p stores the map p read, with p's entry, and
\* nothing of what the file holds now
StaleWrite(p) ==
    /\ usedFile' = Some(UsedWith(run[p].used, Val(run[p].facts).name, clock))
    /\ \A n \in DOMAIN load_used(usedFile) :
          (n # Val(run[p].facts).name /\ n \notin DOMAIN run[p].used) =>
              n \notin DOMAIN Val(usedFile')

\* C21: mark_used reads the used file and later writes what it read plus
\* its own entry, so an entry another run wrote in between is gone from the
\* file after the write (or replaced, when it has the same key).
C21_UsedFileReadThenWrite ==
    [][\A p \in Procs :
          (Acts(p) /\ run[p].pc = "mark_write") => StaleWrite(p)]_vars

\* both processes ended a mark_used, for different subjects, and the file
\* lacks the entry one of them wrote
C21_Witness ==
    /\ ~IsNone(usedFile)
    /\ \E p, q \in Procs :
         /\ p # q
         /\ ~IsNone(run[p].wrote) /\ ~IsNone(run[q].wrote)
         /\ Val(run[p].wrote).name # Val(run[q].wrote).name
         /\ Holds(Val(usedFile), Val(run[q].wrote))
         /\ Val(run[p].wrote).name \notin DOMAIN Val(usedFile)

\* both processes ended a mark_used for one subject, and the later write
\* replaced the entry of the earlier
C21_WitnessOverwritten ==
    /\ ~IsNone(usedFile)
    /\ \E p, q \in Procs :
         /\ p # q
         /\ ~IsNone(run[p].wrote) /\ ~IsNone(run[q].wrote)
         /\ Val(run[p].wrote).name = Val(run[q].wrote).name
         /\ Holds(Val(usedFile), Val(run[q].wrote))
         /\ ~Holds(Val(usedFile), Val(run[p].wrote))

(***************************************************************************)
(* Properties of the order of aggregation                                  *)
(***************************************************************************)
\* the place of an adapter in the order Wikimedia Commons, Wikipedia page,
\* IMDb, Bing, SerpAPI; the download comes after them
AdapterRank(at) ==
    CASE at \in {"wikimedia", "wikimedia_year"} -> 1
      [] at = "wikipedia_page" -> 2
      [] at = "imdb" -> 3
      [] at = "bing" -> 4
      [] at = "serpapi" -> 5
      [] OTHER -> 6

\* the first place of s whose candidate has the URL u, or the title t
FirstUrlAt(s, u) ==
    CHOOSE i \in 1..Len(s) :
        s[i].image_url = u /\ \A j \in 1..(i - 1) : s[j].image_url # u

FirstTitleAt(s, t) ==
    CHOOSE i \in 1..Len(s) :
        s[i].title = t /\ \A j \in 1..(i - 1) : s[j].title # t

\* s can be had from t by leaving candidates out
RECURSIVE IsSubsequence(_, _)
IsSubsequence(s, t) ==
    IF s = <<>> THEN TRUE
    ELSE IF t = <<>> THEN FALSE
    ELSE IF Head(s) = Head(t) THEN IsSubsequence(Tail(s), Tail(t))
    ELSE IsSubsequence(s, Tail(t))

\* what the step pushed, after what was kept before it
PushedSoFar == candidates \o offered'

\* every candidate kept after the step is the first pushed with its URL and
\* the first pushed with its title
FirstPushedSurvives ==
    \A k \in 1..Len(candidates') :
        /\ candidates'[k] =
              PushedSoFar[FirstUrlAt(PushedSoFar, candidates'[k].image_url)]
        /\ candidates'[k] =
              PushedSoFar[FirstTitleAt(PushedSoFar, candidates'[k].title)]

\* an adapter step keeps the adapter order and the first candidate pushed
FirstSeenWinsStep ==
    pc \in AdapterPcs =>
        /\ AdapterRank(pc') >= AdapterRank(pc)
        /\ IsPrefix(candidates, candidates')
        /\ IsSubsequence(candidates', PushedSoFar)
        /\ FirstPushedSurvives

\* C22: the adapters run in the order Wikimedia Commons, Wikipedia page,
\* IMDb, Bing, SerpAPI; of the candidates pushed with one URL or one title
\* the first pushed is the one kept; the list keeps the order of pushing.
C22_FirstSeenWinsInAdapterOrder == [][FirstSeenWinsStep]_vars

(***************************************************************************)
(* Properties of the relaxed fallback                                      *)
(***************************************************************************)
\* select_anchors returned what the fallback selected
RelaxedReturned ==
    Selected /\ sel_result.status = "ok" /\ sel_result.mode = "relaxed"

\* the positions the returned anchors were taken from
Accepted == PositionsOf(sel_result.anchors)

\* position i comes before position j in the manifest
ManifestOrder(i, j) == i < j

\* the rule of the relaxed walk for position i when the walk visits the
\* positions in the order Earlier: fewer than 8 are accepted before i, and
\* none of them has a year less than step from the year of i
RelaxedAccepts(i, acc, step, Earlier(_, _)) ==
    /\ Cardinality({j \in acc : Earlier(j, i)}) < 8
    /\ \A j \in acc :
          Earlier(j, i) => Distance(ManifestYear(i), ManifestYear(j)) >= step

\* the anchors are what the relaxed walk yields from the positions acc when
\* it visits the eligible positions in the order Earlier
RelaxedWalkOf(anchors, acc, eligible, step, Earlier(_, _)) ==
    /\ acc \subseteq eligible
    /\ Cardinality(acc) = Len(anchors)
    /\ \A i \in eligible : i \in acc <=> RelaxedAccepts(i, acc, step, Earlier)
    /\ \A k \in 1..(Len(anchors) - 1) :
          Earlier(anchors[k].image_path.idx, anchors[k + 1].image_path.idx)

IsRelaxedWalk(Earlier(_, _)) ==
    LET acc == Accepted
        eligible == VerifiedDatedLocal
        step == EligibleStep
    IN  RelaxedWalkOf(sel_result.anchors, acc, eligible, step, Earlier)

\* C23 as stated: the relaxed fallback walks the eligible candidates in the
\* order of the manifest, accepting a candidate unless its year is within
\* step of an accepted year, until 8 are accepted.
C23_RelaxedWalksManifestOrder ==
    RelaxedReturned => IsRelaxedWalk(ManifestOrder)

\* what select_anchors leaves when the fallback returned
RelaxedWalksYearOrder == RelaxedReturned => IsRelaxedWalk(Before)

\* C23 as amended: the relaxed fallback walks the eligible candidates in
\* ascending order of year (candidates of one year in manifest order),
\* accepting a candidate unless its year is within step of an accepted year,
\* until 8 are accepted.
C23_RelaxedWalksYearOrder == RelaxedWalksYearOrder

\* the fallback returned anchors of a manifest in which an accepted
\* candidate stands after a candidate of a later year
C23_Witness ==
    /\ RelaxedReturned
    /\ \E i \in Accepted :
          \E j \in VerifiedDatedLocal :
              j < i /\ ManifestYear(j) > ManifestYear(i)

\* the years of the returned anchors, as a set
AnchorYearSet == {AnchorYears[k] : k \in 1..Len(AnchorYears)}

\* an eligible year the walk passed over
PassedOver(y) == y \in EligibleYears \ AnchorYearSet

\* the spacing of what the fallback returned
RelaxedSpacing ==
    RelaxedReturned =>
        LET years == AnchorYearSet
            step == EligibleStep
        IN  /\ Len(AnchorYears) <= 8
            /\ Cardinality(years) = Len(AnchorYears)
            /\ Spaced(years, step)
            /\ Len(AnchorYears) < 8 =>
                  \A y \in EligibleYears \ years :
                      \E a \in years : Distance(y, a) < step

\* C24: in the fallback step is max(1, (max_year - min_year) div 8) over the
\* eligible years; the returned anchors have pairwise distinct years, every
\* two of them step or more apart, and number at most 8.  (That step is the
\* distance used shows in the years passed over: with fewer than 8 anchors
\* each is less than step from the year of an anchor.)
C24_RelaxedSpacing == RelaxedSpacing

\* the fallback returned 3 or more anchors with a step of 2 or more, and
\* passed over an eligible year
C24_Witness ==
    /\ RelaxedReturned
    /\ EligibleStep >= 2
    /\ Len(AnchorYears) >= 3
    /\ \E y \in EligibleYears : PassedOver(y)

(***************************************************************************)
(* Properties of the verifiers                                             *)
(***************************************************************************)
\* a turn of the download loop is taken
DownloadTurn == pc = "download" /\ fetches' # fetches

\* the candidate of the turn before it, and after it
TurnBefore == candidates[Len(downloaded) + 1]

TurnAfter == Val(cand')

\* the field of the file is present and parseable
Parseable(file, field) ==
    /\ ~IsNone(file)
    /\ ~IsNone(Val(file)[field])
    /\ ~IsNone(_normalize_exif_datetime(Val(Val(file)[field])))

\* the places, in the order DateTimeOriginal, DateTimeDigitized, DateTime,
\* of the fields of the file that are present and parseable
ParseablePlaces(file) ==
    {k \in 1..3 :
        Parseable(file, <<"DateTimeOriginal", "DateTimeDigitized", "DateTime">>[k])}

FirstParseable(file) ==
    <<"DateTimeOriginal", "DateTimeDigitized", "DateTime">>[
        CHOOSE k \in ParseablePlaces(file) :
            \A j \in ParseablePlaces(file) : k <= j]

\* the verified_date the field gives: its normalised date, the year of that
\* date, the field as method, 0.98 for DateTimeOriginal and 0.93 otherwise
ExifDateFrom(file, field) ==
    [date |-> Val(_normalize_exif_datetime(Val(Val(file)[field]))),
     year |-> DecimalValue(
                  Prefix(Val(_normalize_exif_datetime(Val(Val(file)[field]))), 4)),
     method |-> <<"exif", field>>,
     confidence |-> IF field = "DateTimeOriginal" THEN 98 ELSE 93]

ExifVerifierStep ==
    DownloadTurn =>
        /\ outcome' = outcome
        /\ IF /\ ~IsNone(TurnAfter.local_path)
              /\ ParseablePlaces(WebFile(TurnBefore.image_url)) # {}
              THEN /\ TurnAfter.verified
                   /\ TurnAfter.verified_date =
                         Some(ExifDateFrom(WebFile(TurnBefore.image_url),
                                  FirstParseable(WebFile(TurnBefore.image_url))))
              ELSE /\ TurnAfter.verified = TurnBefore.verified
                   /\ TurnAfter.verified_date = TurnBefore.verified_date

\* C25: the EXIF verifier takes the date from the first of DateTimeOriginal,
\* DateTimeDigitized, DateTime that is present and parseable (an earlier
\* field that does not parse is passed over); the confidence is 0.98 when
\* that field is DateTimeOriginal and 0.93 otherwise; when no field is
\* present and parseable, the file cannot be read or nothing was downloaded,
\* the candidate's verification is left as it was and nothing is raised.
C25_ExifVerifier == [][ExifVerifierStep]_vars

\* a downloaded candidate whose DateTimeOriginal does not parse was dated by
\* its DateTimeDigitized
C25_Witness ==
    \E i \in 1..Len(downloaded) :
        /\ downloaded[i].image_url = Str("i1")
        /\ ~IsNone(downloaded[i].verified_date)
        /\ Val(downloaded[i].verified_date).method = <<"exif", "DateTimeDigitized">>
        /\ Val(downloaded[i].verified_date).confidence = 93

\* a downloaded candidate whose file has no EXIF block stayed unverified
C25_WitnessUnreadable ==
    \E i \in 1..Len(downloaded) :
        /\ ~IsNone(downloaded[i].local_path)
        /\ IsNone(WebFile(downloaded[i].image_url))
        /\ ~downloaded[i].verified

\* what the structured-metadata verifier is to leave of a candidate
CommonsVerifierResult(c) ==
    IF /\ c.source = "wikimedia"
       /\ ~IsNone(c.meta.commons_date)
       /\ ~IsNone(c.meta.commons_date_method)
        THEN /\ c.verified
             /\ ~IsNone(c.verified_date)
             /\ Val(c.verified_date).date = Val(c.meta.commons_date)
             /\ AllDigits(Prefix(Val(c.meta.commons_date), 4))
             /\ Val(c.verified_date).year =
                   DecimalValue(Prefix(Val(c.meta.commons_date), 4))
             /\ Val(c.verified_date).method = Val(c.meta.commons_date_method)
             /\ Val(c.verified_date).confidence = 95
        ELSE ~c.verified /\ IsNone(c.verified_date)

\* C26: the structured-metadata verifier verifies a candidate exactly when
\* its source is 'wikimedia' and meta has both commons_date and
\* commons_date_method; verified_date then has that date, the year of its
\* first four digits, the method label and confidence 0.95; otherwise the
\* candidate is as it was built.  (Said of the candidates before any
\* download turn, which is when only this verifier has seen them.)
C26_CommonsVerifier ==
    fetches = <<>> =>
        /\ \A i \in 1..Len(candidates) : CommonsVerifierResult(candidates[i])
        /\ ~IsNone(cand) => CommonsVerifierResult(Val(cand))

\* C27: when the strict selection yields k < 5 anchors and the fallback does
\* not raise, the fallback returns k anchors or more.
C27_FallbackNotFewer ==
    RelaxedReturned => Len(sel_result.anchors) >= Len(StrictAnchors)

\* the eligible candidate that comes first in ascending-year order
EarliestEligible ==
    CHOOSE i \in VerifiedDatedLocal :
        \A j \in VerifiedDatedLocal : j # i => Before(i, j)

\* the size of what select_anchors returned
TwoToEightAnchors ==
    /\ (Selected /\ sel_result.status = "ok") =>
          Len(sel_result.anchors) \in 2..8
    /\ (Selected /\ Cardinality(EligibleYears) = 1) =>
          (sel_result.status = "no_diversity" /\ sel_result.anchors = <<>>)
    /\ RelaxedReturned =>
          /\ sel_result.anchors[1].image_path.idx = EarliestEligible
          /\ \E k \in 2..Len(AnchorYears) : AnchorYears[k] # AnchorYears[1]

\* C28: a successful return of select_anchors has 2 to 8 anchors; a manifest
\* whose eligible candidates all have one year ends with the year-diversity
\* error; the fallback accepts the earliest eligible candidate and an anchor
\* of a further year.
C28_TwoToEightAnchors == [][TwoToEightAnchors']_vars

\* the fallback returned exactly 2 anchors of a manifest with 3 or more
\* eligible years
C28_Witness ==
    /\ RelaxedReturned
    /\ Len(sel_result.anchors) = 2
    /\ Cardinality(EligibleYears) >= 3

\* 3 or more eligible candidates, all of one year, and the error
C28_WitnessOneYear ==
    /\ Selected
    /\ Cardinality(VerifiedDatedLocal) >= 3
    /\ Cardinality(EligibleYears) = 1
    /\ sel_result.status = "no_diversity"

(***************************************************************************)
(* Properties of the download budget                                       *)
(***************************************************************************)
\* the manifest file of the run
Written == Val(manifestFile)

\* the candidates of the list past the first 140
PastBudget == {j \in 1..Len(candidates) : j > 140}

\* C29: the manifest of a fresh run holds exactly the first 140 candidates
\* of the deduplicated list, in the order of the list; each of them has
\* either local_path or meta download_error, never both and never neither;
\* the candidates past the first 140, verified by Commons or not, are in
\* neither candidates nor verified_years nor verified_count.
C29_DownloadBudget ==
    (FreshRunDone /\ outcome = "returned") =>
        /\ Written.candidates =
              SubSeq(candidates, 1, IF Len(candidates) > 140 THEN 140
                                    ELSE Len(candidates))
        /\ \A i \in 1..Len(Written.candidates) :
              IsNone(Written.candidates[i].local_path)
                  # IsNone(Written.candidates[i].meta.download_error)
        /\ \A j \in PastBudget :
              /\ IsNone(candidates[j].local_path)
              /\ IsNone(candidates[j].meta.download_error)
              /\ \A i \in 1..Len(Written.candidates) :
                    Written.candidates[i].image_url # candidates[j].image_url
        /\ Written.verified_count =
              Cardinality({i \in 1..Len(candidates) :
                              i <= 140 /\ candidates[i].verified})
        /\ {Written.verified_years[k] : k \in 1..Len(Written.verified_years)} =
              {Val(candidates[i].verified_date).year :
                  i \in {j \in 1..Len(candidates) :
                            j <= 140 /\ ~IsNone(candidates[j].verified_date)}}

\* a fresh run returned whose list had a candidate past the first 140 that
\* Commons had verified, and whose manifest has 140 candidates, one of them
\* with a download error
C29_Witness ==
    /\ FreshRunDone /\ outcome = "returned"
    /\ \E j \in PastBudget : candidates[j].verified
    /\ Len(Written.candidates) = 140
    /\ \E i \in 1..Len(Written.candidates) :
          ~IsNone(Written.candidates[i].meta.download_error)

(***************************************************************************)
(* Properties of the queue                                                 *)
(***************************************************************************)
\* the subjects of the queue, in its order
Subjects == load_queue(QueueData)

\* the keys of the used map on file
UsedNames == DOMAIN load_used(usedFile)

\* the places of the queue whose subject is not a key of the used map
UnusedPlaces == {k \in 1..Len(Subjects) : Subjects[k] \notin UsedNames}

\* process p starts a command: get_next_celebrity is called
Starts(p) == run[p].pc = "idle" /\ Acts(p)

\* the call returns the earliest subject that is not a key of the used map,
\* so every subject before it is a key; None when every subject is a key
HeadOfLine(p) ==
    IF UnusedPlaces = {}
        THEN IsNone(run'[p].name) /\ run'[p].pc = "idle"
        ELSE \E k \in UnusedPlaces :
                /\ run'[p].name = Some(Subjects[k])
                /\ \A j \in 1..(k - 1) : Subjects[j] \in UsedNames

\* a subject becomes a key of the used map only by the mark_used of a
\* command whose anchor selection succeeded on facts of that name
RecordedAfterSelection ==
    \A n \in DOMAIN load_used(usedFile') \ UsedNames :
        \E p \in Procs :
            /\ run[p].pc = "mark_write"
            /\ Acts(p)
            /\ run[p].selected
            /\ Val(run[p].facts).name = n

HeadOfLineStep ==
    /\ \A p \in Procs : Starts(p) => HeadOfLine(p)
    /\ RecordedAfterSelection

\* C30: get_next_celebrity returns the earliest queue entry that is not a
\* key of the used map, None when there is none; so a command started while
\* a subject is not recorded selects that subject again, a later entry is
\* returned only when every entry before it is a key of the used map, and a
\* subject is recorded only after an anchor selection that succeeded.
C30_QueueHeadOfLine == [][HeadOfLineStep]_vars

\* a command that selected the first subject ended in an error, the used
\* map does not have the subject, and the other process has selected the
\* same subject
C30_Witness ==
    \E p, q \in Procs :
        /\ p # q
        /\ run[p].pc = "idle" /\ run[p].outcome = "raised"
        /\ run[p].name = Some(Subjects[1])
        /\ Subjects[1] \notin UsedNames
        /\ run[q].pc # "idle"
        /\ run[q].name = Some(Subjects[1])

\* the second subject was returned, the first being a key of the used map
C30_WitnessNext ==
    \E p \in Procs :
        /\ run[p].pc # "idle"
        /\ run[p].name = Some(Subjects[2])
        /\ Subjects[1] \in UsedNames

====
